---- MODULE Spec2Model ----
(***************************************************************************)
(* A model of CentureMCPClientTransport (src/unnamed/part_001, lines       *)
(* 456-746): the transport adapter that scans every inbound JSON-RPC       *)
(* message with the Centure scan client before handing it to the           *)
(* application, and of the pure helpers it uses.                           *)
(*                                                                         *)
(* JavaScript values are represented as follows.                           *)
(*   - an optional property is a sequence: <<>> when the property is       *)
(*     absent (undefined), <<v>> when it is present with value v;          *)
(*   - a string is a record: [lit |-> s] for a literal, [json |-> v] for   *)
(*     the text JSON.stringify produces for the value v;                   *)
(*   - a message is a record of the five JSON-RPC properties.              *)
(* The application installs its onclose, onerror and onmessage callbacks   *)
(* before start, as the MCP client's connect does.  The handler's second          *)
(* argument, extra, is handed to every hook and to onmessage as received   *)
(* and is left out.  Spec is the adapter under a wrapped transport that    *)
(* delivers one message at a time (slot 1); the other slots are for        *)
(* overlapping invocations of the handler.  SpecTransport is the adapter   *)
(* from its construction on, with or without its two collaborators, under  *)
(* an application that calls start, send and close in any order and a      *)
(* wrapped transport that emits close and error events.  SpecExtract is    *)
(* the handler up to its scan calls, for every shape of message and of     *)
(* content item.  SpecOverlap is the started adapter under a wrapped       *)
(* transport that calls the handler while earlier invocations are in       *)
(* flight, and FairSpecOverlap adds that every awaited call settles.       *)
(***************************************************************************)
EXTENDS Integers, Sequences, FiniteSets, TLC

VARIABLES options, adapter, pipe, wrapped, caller

vars == <<options, adapter, pipe, wrapped, caller>>

-----------------------------------------------------------------------------
(* Bounds of the model *)

\* the longest result.content array an inbound message carries
MaxContent == 2

\* the number of inbound handler invocations that can be in flight at once
MaxInFlight == 2

\* the number of close and error events the wrapped transport emits
MaxEvents == 2

\* calls of start, send and close in flight at once
MaxPending == 2

-----------------------------------------------------------------------------
(* JavaScript values *)

None == <<>>

Some(x) == <<x>>

Lit(s) == [lit |-> s]

\* JSON.stringify(v): a string, distinct from v and from every literal
JSONstringify(v) == [json |-> v]

\* truthiness of an optional string property: present and not ""
TruthyString(o) == o # None /\ o[1] # Lit("")

-----------------------------------------------------------------------------
(* Scan verdicts (ScanResponse) *)

Category(code, confidence) == [code |-> code, confidence |-> confidence]

ScanResponse(safe, cats, req, key, units, tier) ==
    [is_safe |-> safe, categories |-> cats, request_id |-> req,
     api_key_id |-> key, request_units |-> units, service_tier |-> tier]

SafeVerdict ==
    ScanResponse(TRUE, <<>>, "req-1", "key-1", 1, "low")

ExfiltrationVerdict ==
    ScanResponse(FALSE, <<Category("data_exfiltration", "high")>>,
                 "req-2", "key-2", 2, "dedicated")

InjectionVerdict ==
    ScanResponse(FALSE, <<Category("context_injection", "medium"),
                          Category("data_exfiltration", "medium")>>,
                 "req-3", "key-1", 3, "standard")

\* the verdicts a scan call can return
Verdicts == {SafeVerdict, ExfiltrationVerdict, InjectionVerdict}

-----------------------------------------------------------------------------
(* Thrown and rejected values *)

ErrorValue(isError, what) == [instanceofError |-> isError, what |-> what]

\* a scan call rejecting: an Error (network failure, CentureApiError) or, with
\* a custom fetch, any other value
ScanFailures == {ErrorValue(TRUE, "fetch failed"), ErrorValue(FALSE, "scan aborted")}

\* a hook throwing or rejecting
HookFailures == {ErrorValue(TRUE, "hook error"), ErrorValue(FALSE, "hook rejected")}

\* the application's onmessage callback: returns (None) or throws
AppOutcomes == {None, Some(ErrorValue(TRUE, "app error")),
                Some(ErrorValue(FALSE, "app threw a value"))}

\* reading a property of undefined
TypeErrorValue == ErrorValue(TRUE, "TypeError: cannot read properties of undefined")

\* what the wrapped transport's start, send and close reject with
WrappedFailures == {ErrorValue(TRUE, "wrapped transport error")}

\* how a call of the wrapped transport ends: fulfilled, or rejected
WrappedOutcomes == {None} \cup {Some(error) : error \in WrappedFailures}

\* what the wrapped transport hands to its onerror callback
WrappedErrors == {ErrorValue(TRUE, "connection lost"), ErrorValue(FALSE, "connection lost")}

-----------------------------------------------------------------------------
(* Messages *)

JSONRPCMessage(id, method, params, result, error) ==
    [jsonrpc |-> "2.0", id |-> id, method |-> method, params |-> params,
     result |-> result, error |-> error]

Request(id, method, params) ==
    JSONRPCMessage(Some(id), Some(method), params, None, None)

Notification(method, params) ==
    JSONRPCMessage(None, Some(method), params, None, None)

Response(id, result) ==
    JSONRPCMessage(Some(id), None, None, Some(result), None)

ErrorResponse(id, error) ==
    JSONRPCMessage(Some(id), None, None, None, Some(error))

IsRequest(m) == m.id # None /\ m.method # None

IsNotification(m) == m.id = None /\ m.method # None

(* content items of a result *)
ContentItem(type, text, data, resource) ==
    [type |-> type, text |-> text, data |-> data, resource |-> resource]

TextItem(s) == ContentItem("text", Some(s), None, None)

ImageItem(d) == ContentItem("image", None, Some(d), None)

AudioItem == ContentItem("audio", None, Some(Lit("UklGRg==")), None)

\* result.content: an array of items, or a string
ArrayContent(items) == [array |-> items]

StringContent(s) == [string |-> s]

IsArray(content) == "array" \in DOMAIN content

IsString(content) == "string" \in DOMAIN content

Result(content, payload) == [content |-> content, payload |-> payload]

ResourceItem(blob, mimeType) ==
    ContentItem("resource", None, None, Some([blob |-> blob, mimeType |-> mimeType]))

-----------------------------------------------------------------------------
(* isImageMimeType *)

IMAGE_MIME_TYPES == {"image/png", "image/jpeg", "image/jpg", "image/gif", "image/webp"}

\* mimeType.toLowerCase().trim(), tabulated for the MIME strings of the model
\* (every other string of the model is already lower-case and trimmed)
ToLowerCaseTrim(s) ==
    CASE s = "IMAGE/PNG" -> "image/png"
      [] s = " image/gif " -> "image/gif"
      [] OTHER -> s

isImageMimeType(mimeType) ==
    IF ~TruthyString(mimeType) THEN FALSE
    ELSE ToLowerCaseTrim(mimeType[1].lit) \in IMAGE_MIME_TYPES

-----------------------------------------------------------------------------
(* extractContentForScanning *)

Fragments(texts, images) == [texts |-> texts, images |-> images]

\* mutation: resource items are not looked at
ExtractItemWithoutResources(item, acc) ==
    IF item.type = "text" /\ TruthyString(item.text)
    THEN Fragments(Append(acc.texts, item.text[1]), acc.images)
    ELSE IF item.type = "image" /\ TruthyString(item.data)
    THEN Fragments(acc.texts, Append(acc.images, item.data[1]))
    ELSE acc

\* one iteration of the for-of loop over result.content
ExtractItem(item, acc) ==
    IF item.type = "text" /\ TruthyString(item.text)
    THEN Fragments(Append(acc.texts, item.text[1]), acc.images)
    ELSE IF item.type = "image" /\ TruthyString(item.data)
    THEN Fragments(acc.texts, Append(acc.images, item.data[1]))
    ELSE IF /\ item.type = "resource"
            /\ item.resource # None
            /\ TruthyString(item.resource[1].blob)
            /\ isImageMimeType(item.resource[1].mimeType)
    THEN Fragments(acc.texts, Append(acc.images, item.resource[1].blob[1]))
    ELSE acc

RECURSIVE ExtractItems(_, _)
ExtractItems(items, acc) ==
    IF items = <<>> THEN acc
    ELSE ExtractItems(Tail(items), ExtractItem(Head(items), acc))

\* mutation: a result without an array or a string as content yields nothing
extractContentWithoutFallback(message) ==
    IF message.result # None
    THEN LET result == message.result[1] IN
         IF result.content # None /\ IsArray(result.content[1])
         THEN ExtractItems(result.content[1].array, Fragments(<<>>, <<>>))
         ELSE IF /\ result.content # None
                 /\ IsString(result.content[1])
                 /\ result.content[1].string # Lit("")
         THEN Fragments(<<result.content[1].string>>, <<>>)
         ELSE Fragments(<<>>, <<>>)
    ELSE IF message.params # None
    THEN Fragments(<<JSONstringify(message.params[1])>>, <<>>)
    ELSE Fragments(<<>>, <<>>)

\* mutation: a content array that yields nothing falls back to the serialized
\* result
extractContentFallsBackWhenEmpty(message) ==
    IF message.result # None
    THEN LET result == message.result[1] IN
         IF result.content # None /\ IsArray(result.content[1])
         THEN LET found == ExtractItems(result.content[1].array, Fragments(<<>>, <<>>))
              IN  IF found = Fragments(<<>>, <<>>)
                  THEN Fragments(<<JSONstringify(result)>>, <<>>)
                  ELSE found
         ELSE IF /\ result.content # None
                 /\ IsString(result.content[1])
                 /\ result.content[1].string # Lit("")
         THEN Fragments(<<result.content[1].string>>, <<>>)
         ELSE Fragments(<<JSONstringify(result)>>, <<>>)
    ELSE IF message.params # None
    THEN Fragments(<<JSONstringify(message.params[1])>>, <<>>)
    ELSE Fragments(<<>>, <<>>)

\* result and params values of the model are objects, hence truthy when present
extractContentForScanning(message) ==
    IF message.result # None
    THEN LET result == message.result[1] IN
         IF result.content # None /\ IsArray(result.content[1])
         THEN ExtractItems(result.content[1].array, Fragments(<<>>, <<>>))
         ELSE IF /\ result.content # None
                 /\ IsString(result.content[1])
                 /\ result.content[1].string # Lit("")
         THEN Fragments(<<result.content[1].string>>, <<>>)
         ELSE Fragments(<<JSONstringify(result)>>, <<>>)
    ELSE IF message.params # None
    THEN Fragments(<<JSONstringify(message.params[1])>>, <<>>)
    ELSE Fragments(<<>>, <<>>)

-----------------------------------------------------------------------------
(* Combining the scan results of one message *)

\* mutation: each result's categories are put in front of the earlier ones
RECURSIVE FlatMapCategoriesReversed(_)
FlatMapCategoriesReversed(scanResults) ==
    IF scanResults = <<>> THEN <<>>
    ELSE FlatMapCategoriesReversed(Tail(scanResults)) \o Head(scanResults).categories

RECURSIVE FlatMapCategories(_)
FlatMapCategories(scanResults) ==
    IF scanResults = <<>> THEN <<>>
    ELSE Head(scanResults).categories \o FlatMapCategories(Tail(scanResults))

RECURSIVE SumRequestUnits(_)
SumRequestUnits(scanResults) ==
    IF scanResults = <<>> THEN 0
    ELSE Head(scanResults).request_units + SumRequestUnits(Tail(scanResults))

\* mutation: the metadata is taken from the last result
LastOr(scanResults, field, fallback) ==
    IF scanResults = <<>> \/ scanResults[Len(scanResults)][field] = "" THEN fallback
    ELSE scanResults[Len(scanResults)][field]

\* scanResults[0]?.field || fallback
FirstOr(scanResults, field, fallback) ==
    IF scanResults = <<>> \/ scanResults[1][field] = "" THEN fallback
    ELSE scanResults[1][field]

CombineScanResults(scanResults) ==
    LET isUnsafe == \E i \in 1..Len(scanResults) : ~scanResults[i].is_safe
    IN  [is_safe |-> ~isUnsafe,
         categories |-> FlatMapCategories(scanResults),
         request_id |-> FirstOr(scanResults, "request_id", ""),
         api_key_id |-> FirstOr(scanResults, "api_key_id", ""),
         request_units |-> SumRequestUnits(scanResults),
         service_tier |-> FirstOr(scanResults, "service_tier", "standard")]

-----------------------------------------------------------------------------
(* createErrorResponse *)

CENTURE_SECURITY_VIOLATION_ERROR == -32001

BlockMessage == "Message blocked by Centure security scan"

BlockReason == "Unsafe content detected"

SecurityError(scanResult) ==
    [code |-> CENTURE_SECURITY_VIOLATION_ERROR,
     message |-> BlockMessage,
     data |-> [categories |-> scanResult.categories, reason |-> BlockReason]]

\* mutation: the tools/call branch is missing
createErrorResponseNoToolBranch(requestId, method, scanResult) ==
    JSONRPCMessage(Some(requestId), None, None, None,
        Some(SecurityError(scanResult)))

createErrorResponse(requestId, method, scanResult) ==
    IF method = Some("tools/call")
    THEN JSONRPCMessage(Some(requestId), None, None,
             Some([isError |-> TRUE,
                   content |-> Some(ArrayContent(
                       <<TextItem(JSONstringify(SecurityError(scanResult)))>>))]),
             None)
    ELSE JSONRPCMessage(Some(requestId), None, None, None,
             Some(SecurityError(scanResult)))

-----------------------------------------------------------------------------
(* What the hooks can return *)

Bool(b) == [bool |-> b]

\* shouldScanMessage: a boolean, or (per the README) a ShouldScanMessageResult
ShouldScanReturns ==
    {Bool(TRUE), Bool(FALSE), [scan |-> TRUE], [scan |-> FALSE]}

\* JavaScript truthiness of such a value: an object is truthy
Truthy(v) == IF "bool" \in DOMAIN v THEN v.bool ELSE TRUE

\* onAfterScan: nothing (undefined), or an OnAfterScanResult
AfterScanReturns ==
    {None, Some([passthrough |-> TRUE]), Some([passthrough |-> FALSE])}

\* the README's replacement: an error with the id of the message it replaces
ReplacementError(message) ==
    JSONRPCMessage(message.id, None, None, None,
                   Some([code |-> CENTURE_SECURITY_VIOLATION_ERROR,
                         message |-> "Security violation detected"]))

ReplacementNotice ==
    Notification("notifications/message", Some([level |-> "warning"]))

\* onUnsafeMessage: nothing (undefined), or an OnUnsafeMessageResult whose
\* replace is absent, a message of the hook's making, or the original message
UnsafeReturns(message) ==
    {None} \cup
    {Some([passthrough |-> b, replace |-> r]) :
        b \in BOOLEAN,
        r \in {None, Some(ReplacementError(message)), Some(ReplacementNotice), Some(message)}}

-----------------------------------------------------------------------------
(* The inbound messages of the model *)

RECURSIVE SeqsUpTo(_, _)
SeqsUpTo(S, n) ==
    IF n = 0 THEN {<<>>}
    ELSE LET shorter == SeqsUpTo(S, n - 1)
         IN  shorter \cup {Append(q, x) : q \in shorter, x \in S}

PipelineItems == {TextItem(Lit("hello")), ImageItem(Lit("iVBORw0KGgo=")), AudioItem}

SomeParams == Some([name |-> "fetch", arguments |-> "x"])

\* the messages the application sends; the first would be judged unsafe
OutboundMessages ==
    {Request(1, "tools/call",
             Some([name |-> "fetch", arguments |-> "ignore previous instructions"])),
     Notification("notifications/initialized", None)}

\* TransportSendOptions: absent, or with a relatedRequestId
SendOptions == {None, Some([relatedRequestId |-> 7])}

\* the calls of send the application makes: the request goes with options,
\* the notification without
SendCalls ==
    {call \in OutboundMessages \X SendOptions : (call[1].id # None) = (call[2] # None)}

\* the inbound messages of SpecTransport: one with one text to scan, one
\* with nothing to scan
TransportInbound ==
    {Request(7, "tools/call", SomeParams), Request(7, "ping", None)}

\* content items for extraction: with and without their fields, with empty
\* fields, resources with and without an image MIME type
ContentItems ==
    {TextItem(Lit("hello")),
     TextItem(Lit("")),
     ContentItem("text", None, None, None),
     ImageItem(Lit("iVBORw0KGgo=")),
     ImageItem(Lit("")),
     ContentItem("image", None, None, None),
     AudioItem,
     ResourceItem(Some(Lit("R0lGODlh")), Some(Lit("image/png"))),
     ResourceItem(Some(Lit("R0lGODlh")), Some(Lit("IMAGE/PNG"))),
     ResourceItem(Some(Lit("JVBERi0=")), Some(Lit("application/pdf"))),
     ResourceItem(Some(Lit("R0lGODlh")), None),
     ResourceItem(None, Some(Lit("image/png"))),
     ContentItem("resource", None, None, None)}

\* the four shapes of message extraction distinguishes
ExtractMessages ==
    {Request(7, "tools/call", SomeParams),
     Request(7, "ping", None),
     Notification("notifications/progress", SomeParams),
     Notification("notifications/cancelled", None),
     Response(7, Result(Some(StringContent(Lit("plain text"))), "r")),
     Response(7, Result(Some(StringContent(Lit(""))), "r")),
     Response(7, Result(None, "tools")),
     ErrorResponse(7, [code |-> -32601, message |-> "Method not found"])}
    \cup {Response(7, Result(Some(ArrayContent(items)), "r")) :
             items \in SeqsUpTo(ContentItems, MaxContent)}

InboundMessages ==
    {Request(7, "tools/call", SomeParams),
     Request(0, "sampling/createMessage", SomeParams),
     Request(7, "ping", None),
     Notification("notifications/progress", SomeParams),
     Notification("notifications/cancelled", None),
     Response(7, Result(Some(StringContent(Lit("plain text"))), "r")),
     Response(7, Result(Some(StringContent(Lit(""))), "r")),
     Response(7, Result(None, "tools")),
     ErrorResponse(7, [code |-> -32601, message |-> "Method not found"])}
    \cup {Response(7, Result(Some(ArrayContent(items)), "r")) :
             items \in SeqsUpTo(PipelineItems, MaxContent)}

-----------------------------------------------------------------------------
(* State *)

\* one invocation of the handler start installs as wrappedTransport.onmessage
IdlePipeline ==
    [pc |-> "idle",
     message |-> None,
     arrivedDuring |-> {},
     shouldScanCalls |-> 0, shouldScanResult |-> None,
     hookFailure |-> None,
     extractCalls |-> 0,
     scans |-> <<>>, rejection |-> None,
     combined |-> None,
     afterScanCalls |-> 0, afterScanResult |-> None,
     unsafeCalls |-> 0, unsafeResult |-> None,
     delivered |-> <<>>,
     reported |-> <<>>,
     raised |-> None,
     closedDuring |-> FALSE]

Slots == 1..MaxInFlight

\* the slot a transport that awaits each handler invocation uses
SequentialSlots == {1}

HookOptions ==
    [shouldScanMessage : BOOLEAN, onAfterScan : BOOLEAN, onUnsafeMessage : BOOLEAN]

\* the options object the constructor is given: which properties it has
Options(hooks, transport, client, onBeforeSend) ==
    [transport |-> transport,
     client |-> client,
     shouldScanMessage |-> hooks.shouldScanMessage,
     onAfterScan |-> hooks.onAfterScan,
     onUnsafeMessage |-> hooks.onUnsafeMessage,
     onBeforeSend |-> onBeforeSend]

WithoutHooks ==
    [shouldScanMessage |-> FALSE, onAfterScan |-> FALSE, onUnsafeMessage |-> FALSE]

\* complete options; options with the onBeforeSend property the README
\* documents; options without a transport; options without a client
TransportOptions ==
    {Options(WithoutHooks, TRUE, TRUE, FALSE),
     Options(WithoutHooks, TRUE, TRUE, TRUE),
     Options(WithoutHooks, FALSE, TRUE, FALSE),
     Options(WithoutHooks, TRUE, FALSE, FALSE)}

\* one call of a method or callback, and how it has ended so far
Call(op, args, settled, error) ==
    [op |-> op, args |-> args, settled |-> settled, error |-> error]

\* one call the application makes on the adapter: what had happened before
\* it (a start had fulfilled, close had been called), the calls its body
\* has made in order, and how it has ended so far
AdapterCall(op, args, calls, settled, error) ==
    [op |-> op, args |-> args,
     started |-> caller.started, closed |-> caller.closed,
     calls |-> calls, settled |-> settled, error |-> error]

NewCaller ==
    [started |-> FALSE, closed |-> FALSE, lastCall |-> None, pending |-> <<>>,
     events |-> <<>>, outputs |-> <<>>]

\* the values of a transport's sessionId?: string: absent, empty, or an id
SessionIds == {None, Some(Lit("")), Some(Lit("session-1"))}

\* a wrapped transport that has not been started: the events it has
\* emitted, its sessionId, and whether it has a setProtocolVersion method
WrappedTransport(sessionId, setProtocolVersion) ==
    [emitted |-> <<>>,
     inbound |-> <<>>,
     sessionId |-> sessionId,
     setProtocolVersion |-> setProtocolVersion]

NewWrapped == WrappedTransport(None, FALSE)

WrappedTransports ==
    {WrappedTransport(sessionId, setProtocolVersion) :
        sessionId \in SessionIds, setProtocolVersion \in BOOLEAN}

\* the protocol versions the application negotiates
ProtocolVersions == {"2025-03-26", "2025-06-18"}

\* new CentureMCPClientTransport(options): five assignments, no test
constructor(opts) ==
    [adapter |-> [pc |-> "constructed", wired |-> FALSE,
                  sessionId |-> None, setProtocolVersion |-> FALSE],
     error |-> None]

Init ==
    /\ options \in {Options(hooks, TRUE, TRUE, FALSE) : hooks \in HookOptions}
    /\ adapter = constructor(options).adapter
    /\ pipe = [p \in Slots |-> IdlePipeline]
    /\ wrapped = NewWrapped
    /\ caller = [NewCaller EXCEPT !.lastCall =
                    Some([op |-> "constructor", args |-> <<options>>,
                          started |-> FALSE, closed |-> FALSE,
                          calls |-> <<>>, settled |-> TRUE, error |-> None])]

InitTransport ==
    /\ options \in TransportOptions
    /\ adapter = [pc |-> "new", wired |-> FALSE,
                  sessionId |-> None, setProtocolVersion |-> FALSE]
    /\ pipe = [p \in Slots |-> IdlePipeline]
    /\ wrapped \in WrappedTransports
    /\ caller = NewCaller

-----------------------------------------------------------------------------
(* The steps of the inbound handler, as functions of the invocation's record *)

\* mutation: the catch block does what its comment says, "report error but
\* pass through the message", instead of rethrowing
CatchPassesThrough(rec, error) ==
    [rec EXCEPT !.pc = "returned",
                !.reported = IF error.instanceofError THEN Append(@, error) ELSE @,
                !.delivered = Append(@, rec.message[1])]

\* mutation: the catch block rethrows without reporting
CatchDoesNotReport(rec, error) ==
    [rec EXCEPT !.pc = "threw", !.raised = Some(error)]

\* mutation: the catch block reports whatever was thrown
CatchReportsEverything(rec, error) ==
    [rec EXCEPT !.pc = "threw", !.reported = Append(@, error), !.raised = Some(error)]

\* catch (error) { if (error instanceof Error) this.onerror?.(error); throw error }
Catch(rec, error) ==
    [rec EXCEPT !.pc = "threw",
                !.reported = IF error.instanceofError THEN Append(@, error) ELSE @,
                !.raised = Some(error)]

\* mutation: a message that another invocation has already delivered is not
\* delivered again
ForwardOnce(rec, msg, app) ==
    IF \E q \in DOMAIN pipe : pipe[q].delivered = <<msg>>
    THEN [rec EXCEPT !.pc = "returned"]
    ELSE LET called == [rec EXCEPT !.delivered = Append(@, msg)]
         IN  IF app = None THEN [called EXCEPT !.pc = "returned"]
             ELSE Catch(called, app[1])

\* this.onmessage?.(msg, extra), then return; `app` is what the callback does
\* mutation: nothing is handed to the application once close was called
ForwardUnlessClosed(rec, msg, app) ==
    IF caller.closed THEN [rec EXCEPT !.pc = "returned"]
    ELSE LET called == [rec EXCEPT !.delivered = Append(@, msg)]
         IN  IF app = None THEN [called EXCEPT !.pc = "returned"]
             ELSE Catch(called, app[1])

Forward(rec, msg, app) ==
    LET called == [rec EXCEPT !.delivered = Append(@, msg)]
    IN  IF app = None THEN [called EXCEPT !.pc = "returned"]
        ELSE Catch(called, app[1])

\* mutation: a blocked message is always dropped
BlockWithoutReplacementDrops(message, scanResult) == None

\* mutation: a message blocked with no replacement is forwarded as it is
BlockWithoutReplacementForwardsOriginal(message, scanResult) == Some(message)

\* blocking with no replacement: an error response when the message has an id
BlockWithoutReplacement(message, scanResult) ==
    IF message.id # None
    THEN Some(createErrorResponse(message.id[1], message.method, scanResult))
    ELSE None

\* mutation: replace is read only when passthrough is true
MessageToForwardIgnoresReplaceOnBlock(message, unsafeResult, scanResult) ==
    IF unsafeResult.passthrough
    THEN IF unsafeResult.replace # None THEN unsafeResult.replace ELSE Some(message)
    ELSE BlockWithoutReplacement(message, scanResult)

\* mutation: passthrough forwards the original whatever replace is
MessageToForwardPassesOriginal(message, unsafeResult, scanResult) ==
    IF unsafeResult.passthrough
    THEN Some(message)
    ELSE IF unsafeResult.replace # None
    THEN unsafeResult.replace
    ELSE BlockWithoutReplacement(message, scanResult)

\* messageToForward after onUnsafeMessage returned unsafeResult
MessageToForward(message, unsafeResult, scanResult) ==
    IF unsafeResult.passthrough
    THEN IF unsafeResult.replace # None THEN unsafeResult.replace ELSE Some(message)
    ELSE IF unsafeResult.replace # None
    THEN unsafeResult.replace
    ELSE BlockWithoutReplacement(message, scanResult)

\* if (messageToForward) this.onmessage?.(messageToForward, extra)
ForwardIfAny(rec, messageToForward, app) ==
    IF messageToForward # None THEN Forward(rec, messageToForward[1], app)
    ELSE [rec EXCEPT !.pc = "returned"]

\* mutation: the onUnsafeMessage hook is asked about safe messages too
Step4AsksHookWhenSafe(rec, app) ==
    IF options.onUnsafeMessage
    THEN [rec EXCEPT !.pc = "awaitUnsafeMessage", !.unsafeCalls = @ + 1]
    ELSE IF ~rec.combined[1].is_safe
    THEN ForwardIfAny(rec, BlockWithoutReplacement(rec.message[1], rec.combined[1]), app)
    ELSE Forward(rec, rec.message[1], app)

\* Step 4: handle unsafe messages
Step4(rec, app) ==
    IF ~rec.combined[1].is_safe
    THEN IF options.onUnsafeMessage
         THEN [rec EXCEPT !.pc = "awaitUnsafeMessage", !.unsafeCalls = @ + 1]
         ELSE ForwardIfAny(rec,
                  BlockWithoutReplacement(rec.message[1], rec.combined[1]), app)
    ELSE Forward(rec, rec.message[1], app)

\* mutation: the onAfterScan hook is called for unsafe verdicts only
Step3OnlyWhenUnsafe(rec, app) ==
    IF options.onAfterScan /\ ~rec.combined[1].is_safe
    THEN [rec EXCEPT !.pc = "awaitAfterScan", !.afterScanCalls = @ + 1]
    ELSE Step4(rec, app)

\* Step 3: call the onAfterScan hook if provided
Step3(rec, app) ==
    IF options.onAfterScan
    THEN [rec EXCEPT !.pc = "awaitAfterScan", !.afterScanCalls = @ + 1]
    ELSE Step4(rec, app)

ScanCall(kind, content) ==
    [kind |-> kind, content |-> content, state |-> "pending", result |-> None]

\* one scanText per text, then one scanImage per image
ScanCalls(fragments) ==
    [i \in 1..Len(fragments.texts) |-> ScanCall("text", fragments.texts[i])]
    \o [i \in 1..Len(fragments.images) |-> ScanCall("image", fragments.images[i])]

\* the two loops that call the scan client and the await of Promise.all;
\* without a client, this.client.scanText (or scanImage) throws a TypeError
Dispatch(rec, fragments) ==
    IF options.client
    THEN [rec EXCEPT !.pc = "awaitScans", !.scans = ScanCalls(fragments)]
    ELSE Catch(rec, TypeErrorValue)

\* mutation: the no-content early return is missing
Step2NoEmptyCheck(rec, app) ==
    LET fragments == extractContentForScanning(rec.message[1])
        extracted == [rec EXCEPT !.extractCalls = @ + 1]
    IN  Dispatch(extracted, fragments)

\* Step 2: extract content and issue the scans
Step2(rec, app) ==
    LET fragments == extractContentForScanning(rec.message[1])
        extracted == [rec EXCEPT !.extractCalls = @ + 1]
    IN  IF Len(fragments.texts) = 0 /\ Len(fragments.images) = 0
        THEN Forward(extracted, rec.message[1], app)
        ELSE Dispatch(extracted, fragments)

\* mutation: the hook's answer is not consulted
SkipOrScanIgnoresHook(rec, shouldScan, app) == Step2(rec, app)

\* if (!shouldScan) pass through immediately
SkipOrScan(rec, shouldScan, app) ==
    IF ~Truthy(shouldScan) THEN Forward(rec, rec.message[1], app)
    ELSE Step2(rec, app)

\* Step 1: check whether to scan this message
Step1(rec, app) ==
    IF options.shouldScanMessage
    THEN [rec EXCEPT !.pc = "awaitShouldScan", !.shouldScanCalls = @ + 1]
    ELSE SkipOrScan(rec, Bool(TRUE), app)

-----------------------------------------------------------------------------
(* Actions *)

\* the invocation's promise has settled: fulfilled (returned) or rejected (threw)
Settled(rec) == rec.pc \in {"returned", "threw"}

\* the invocations that have been entered and have not settled
InFlight == {q \in DOMAIN pipe : pipe[q].pc \notin {"idle", "returned", "threw"}}

\* the application calls new CentureMCPClientTransport(options)
Construct ==
    /\ adapter.pc = "new"
    /\ adapter' = constructor(options).adapter
    /\ caller' = [caller EXCEPT !.lastCall =
                     Some(AdapterCall("constructor", <<options>>, <<>>, TRUE,
                                      constructor(options).error))]
    /\ UNCHANGED <<options, pipe, wrapped>>

\* the application holds an adapter: the constructor has returned.  No
\* method of the adapter tests anything else before it acts
Callable == adapter.pc = "constructed"

\* a call can be added to the calls in flight
CanPend == Len(caller.pending) < MaxPending

\* the application makes a call on the adapter: a call whose body throws
\* before its first await is settled at once, any other is in flight
Called(c, call) ==
    [c EXCEPT !.lastCall = Some(call),
              !.pending = IF call.settled THEN @ ELSE Append(@, call)]

\* the i-th call in flight settles as the wrapped transport's promise it
\* awaits does: fulfilled (outcome None) or rejected with an error
Returned(c, i, outcome) ==
    LET call == c.pending[i]
        n == Len(call.calls)
        done == [call EXCEPT !.calls[n].settled = TRUE, !.calls[n].error = outcome,
                             !.settled = TRUE, !.error = outcome]
    IN  [c EXCEPT !.lastCall = Some(done),
                  !.pending = [j \in 1..(Len(@) - 1) |-> IF j < i THEN @[j] ELSE @[j + 1]]]

\* the i-th call in flight is a call of op
Pending(i, op) == i \in 1..Len(caller.pending) /\ caller.pending[i].op = op

\* mutation: the callbacks are assigned after the wrapped start has resolved
StartBeforeWiring ==
    /\ Callable
    /\ IF options.transport
       THEN /\ CanPend
            /\ adapter' = adapter
            /\ caller' = Called(caller,
                  AdapterCall("start", <<>>,
                              <<Call("wrappedTransport.start", <<>>, FALSE, None)>>,
                              FALSE, None))
       ELSE /\ adapter' = adapter
            /\ caller' = Called(caller,
                  AdapterCall("start", <<>>, <<>>, TRUE, Some(TypeErrorValue)))
    /\ UNCHANGED <<options, pipe, wrapped>>

\* start, up to its await: wires the wrapped transport's callbacks, takes
\* over its setProtocolVersion if it has one, and calls its start; without a
\* wrapped transport the first assignment throws
Start ==
    /\ Callable
    /\ IF options.transport
       THEN /\ CanPend
            /\ adapter' = [adapter EXCEPT
                              !.wired = TRUE,
                              !.setProtocolVersion = @ \/ wrapped.setProtocolVersion]
            /\ caller' = Called(caller,
                  AdapterCall("start", <<>>,
                              <<Call("wrappedTransport.start", <<>>, FALSE, None)>>,
                              FALSE, None))
       ELSE /\ adapter' = adapter
            /\ caller' = Called(caller,
                  AdapterCall("start", <<>>, <<>>, TRUE, Some(TypeErrorValue)))
    /\ UNCHANGED <<options, pipe, wrapped>>

\* the wrapped transport's start resolves: the adapter copies the sessionId
\* the wrapped transport has at that moment, if it is truthy
StartReturn(i) ==
    /\ Pending(i, "start")
    /\ adapter' = [adapter EXCEPT
                      !.sessionId = IF TruthyString(wrapped.sessionId)
                                    THEN wrapped.sessionId ELSE @]
    /\ caller' = [Returned(caller, i, None) EXCEPT !.started = TRUE]
    /\ UNCHANGED <<options, pipe, wrapped>>

\* the wrapped transport takes, changes or drops its sessionId, at any time
\* of its life (a session is negotiated, ended, negotiated again)
WrappedSetsSessionId(sessionId) ==
    /\ options.transport
    /\ sessionId # wrapped.sessionId
    /\ wrapped' = [wrapped EXCEPT !.sessionId = sessionId]
    /\ UNCHANGED <<options, adapter, pipe, caller>>

\* the wrapped transport's start rejects: so does the adapter's, with the
\* callbacks left wired
StartRejects(i, error) ==
    /\ Pending(i, "start")
    /\ caller' = Returned(caller, i, Some(error))
    /\ UNCHANGED <<options, adapter, pipe, wrapped>>

\* mutation: the outbound message is scanned before it is forwarded
sendScansOutbound(message, sendOptions) ==
    <<Call("client.scanText", <<JSONstringify(message)>>, TRUE, None),
      Call("wrappedTransport.send", <<message, sendOptions>>, FALSE, None)>>

\* the calls the body of send makes: await this.wrappedTransport.send(message, options)
send(message, sendOptions) ==
    <<Call("wrappedTransport.send", <<message, sendOptions>>, FALSE, None)>>

\* the application calls send(message, options): the body runs up to its await
Send(message, sendOptions) ==
    /\ Callable
    /\ IF options.transport
       THEN /\ CanPend
            /\ caller' = Called(caller,
                  AdapterCall("send", <<message, sendOptions>>,
                              send(message, sendOptions), FALSE, None))
       ELSE caller' = Called(caller,
                  AdapterCall("send", <<message, sendOptions>>, <<>>, TRUE,
                              Some(TypeErrorValue)))
    /\ UNCHANGED <<options, adapter, pipe, wrapped>>

\* the wrapped transport's send settles, and with it the adapter's
SendReturn(i, outcome) ==
    /\ Pending(i, "send")
    /\ caller' = Returned(caller, i, outcome)
    /\ UNCHANGED <<options, adapter, pipe, wrapped>>

\* mutation: a close before any start has fulfilled returns without calling
\* the wrapped transport
CloseIgnoredBeforeStart ==
    /\ Callable
    /\ IF options.transport /\ caller.started
       THEN /\ CanPend
            /\ caller' = [Called(caller,
                  AdapterCall("close", <<>>,
                              <<Call("wrappedTransport.close", <<>>, FALSE, None)>>,
                              FALSE, None)) EXCEPT !.closed = TRUE]
       ELSE IF options.transport
       THEN caller' = [Called(caller, AdapterCall("close", <<>>, <<>>, TRUE, None))
                          EXCEPT !.closed = TRUE]
       ELSE caller' = [Called(caller,
                  AdapterCall("close", <<>>, <<>>, TRUE, Some(TypeErrorValue)))
                          EXCEPT !.closed = TRUE]
    /\ pipe' = [q \in DOMAIN pipe |->
                   [pipe[q] EXCEPT !.closedDuring = @ \/ q \in InFlight]]
    /\ UNCHANGED <<options, adapter, wrapped>>

\* the application calls close(): the body runs up to its await,
\* await this.wrappedTransport.close()
\* (closedDuring notes, for the properties, which invocations were in flight;
\* the adapter itself keeps nothing)
Close ==
    /\ Callable
    /\ IF options.transport
       THEN /\ CanPend
            /\ caller' = [Called(caller,
                  AdapterCall("close", <<>>,
                              <<Call("wrappedTransport.close", <<>>, FALSE, None)>>,
                              FALSE, None)) EXCEPT !.closed = TRUE]
       ELSE caller' = [Called(caller,
                  AdapterCall("close", <<>>, <<>>, TRUE, Some(TypeErrorValue)))
                          EXCEPT !.closed = TRUE]
    /\ pipe' = [q \in DOMAIN pipe |->
                   [pipe[q] EXCEPT !.closedDuring = @ \/ q \in InFlight]]
    /\ UNCHANGED <<options, adapter, wrapped>>

\* the wrapped transport's close settles, and with it the adapter's
CloseReturn(i, outcome) ==
    /\ Pending(i, "close")
    /\ caller' = Returned(caller, i, outcome)
    /\ UNCHANGED <<options, adapter, pipe, wrapped>>

\* the application calls the adapter's setProtocolVersion(version), which
\* exists once start has found the wrapped transport to have one; the
\* closure is not async and returns when the wrapped transport's method has
SetProtocolVersion(version) ==
    /\ Callable
    /\ adapter.setProtocolVersion
    /\ caller' = Called(caller,
          AdapterCall("setProtocolVersion", <<version>>,
                      <<Call("wrappedTransport.setProtocolVersion", <<version>>,
                             TRUE, None)>>,
                      TRUE, None))
    /\ UNCHANGED <<options, adapter, pipe, wrapped>>

\* the closure start assigns to wrappedTransport.onclose: this.onclose?.()
onclose(events) == Append(events, [event |-> "close"])

\* mutation: the closure reports only Error instances, as the handler's
\* catch block does
onerrorOnlyErrorInstances(events, error) ==
    IF error.instanceofError THEN Append(events, [event |-> "error", error |-> error])
    ELSE events

\* the closure start assigns to wrappedTransport.onerror: this.onerror?.(error)
onerror(events, error) == Append(events, [event |-> "error", error |-> error])

\* the wrapped transport calls its onclose
WrappedEmitsClose ==
    /\ adapter.wired
    /\ Len(wrapped.emitted) < MaxEvents
    /\ wrapped' = [wrapped EXCEPT !.emitted = Append(@, [event |-> "close"])]
    /\ caller' = [caller EXCEPT !.events = onclose(@)]
    /\ UNCHANGED <<options, adapter, pipe>>

\* the wrapped transport calls its onerror with an error
WrappedEmitsError(error) ==
    /\ adapter.wired
    /\ Len(wrapped.emitted) < MaxEvents
    /\ wrapped' = [wrapped EXCEPT !.emitted =
                      Append(@, [event |-> "error", error |-> error])]
    /\ caller' = [caller EXCEPT !.events = onerror(@, error)]
    /\ UNCHANGED <<options, adapter, pipe>>

\* the order of events across invocations, for the invocations not yet
\* discarded: wrapped.inbound lists them in the order the wrapped transport
\* called the handler, caller.outputs in the order the handler called the
\* application's onmessage
Observed(p) ==
    /\ wrapped' = [wrapped EXCEPT !.inbound =
          IF pipe'[p].pc = "idle" THEN SelectSeq(@, LAMBDA q : q # p)
          ELSE IF pipe[p].pc = "idle" THEN Append(@, p)
          ELSE @]
    /\ caller' = [caller EXCEPT !.outputs =
          IF pipe'[p].pc = "idle" THEN SelectSeq(@, LAMBDA q : q # p)
          ELSE IF Len(pipe'[p].delivered) > Len(pipe[p].delivered) THEN Append(@, p)
          ELSE @]

\* mutation: the handler takes a message only when no other invocation is
\* in flight
ReceiveSerialized(p, message, app) ==
    /\ adapter.wired
    /\ pipe[p].pc = "idle"
    /\ InFlight = {}
    /\ pipe' = [pipe EXCEPT ![p] =
                   Step1([IdlePipeline EXCEPT !.message = Some(message),
                                              !.arrivedDuring = InFlight], app)]
    /\ Observed(p)
    /\ UNCHANGED <<options, adapter>>

\* the wrapped transport calls its onmessage with an inbound message
Receive(p, message, app) ==
    /\ adapter.wired
    /\ pipe[p].pc = "idle"
    /\ pipe' = [pipe EXCEPT ![p] =
                   Step1([IdlePipeline EXCEPT !.message = Some(message),
                                              !.arrivedDuring = InFlight], app)]
    /\ Observed(p)
    /\ UNCHANGED <<options, adapter>>

\* a settled invocation's message, verdicts and results are discarded; the
\* wrapped transport can deliver its next message
Discard(p) ==
    /\ Settled(pipe[p])
    /\ pipe' = [pipe EXCEPT ![p] = IdlePipeline]
    /\ Observed(p)
    /\ UNCHANGED <<options, adapter>>

\* the shouldScanMessage hook returns v
ShouldScanReturn(p, v, app) ==
    /\ pipe[p].pc = "awaitShouldScan"
    /\ pipe' = [pipe EXCEPT ![p] =
                   SkipOrScan([@ EXCEPT !.shouldScanResult = Some(v)], v, app)]
    /\ Observed(p)
    /\ UNCHANGED <<options, adapter>>

\* a hook throws, or the promise it returned rejects
HookThrows(p, error) ==
    /\ pipe[p].pc \in {"awaitShouldScan", "awaitAfterScan", "awaitUnsafeMessage"}
    /\ pipe' = [pipe EXCEPT ![p] = Catch([@ EXCEPT !.hookFailure = Some(error)], error)]
    /\ Observed(p)
    /\ UNCHANGED <<options, adapter>>

\* one scan call resolves with a verdict
ScanFulfils(p, i, verdict) ==
    /\ pipe[p].pc = "awaitScans"
    /\ i \in 1..Len(pipe[p].scans)
    /\ pipe[p].scans[i].state = "pending"
    /\ pipe' = [pipe EXCEPT ![p].scans[i] =
                   [@ EXCEPT !.state = "fulfilled", !.result = Some(verdict)]]
    /\ Observed(p)
    /\ UNCHANGED <<options, adapter>>

\* one scan call rejects; Promise.all rejects with the first rejection
ScanRejects(p, i, error) ==
    /\ pipe[p].pc = "awaitScans"
    /\ i \in 1..Len(pipe[p].scans)
    /\ pipe[p].scans[i].state = "pending"
    /\ pipe' = [pipe EXCEPT
                   ![p].scans[i] = [@ EXCEPT !.state = "rejected", !.result = Some(error)],
                   ![p].rejection = IF @ = None THEN Some(error) ELSE @]
    /\ Observed(p)
    /\ UNCHANGED <<options, adapter>>

ScanResults(rec) == [i \in 1..Len(rec.scans) |-> rec.scans[i].result[1]]

\* mutation: the handler resumes with the results that are there as soon as
\* one scan call has fulfilled
PromiseAllFulfilsOnFirst(p, app) ==
    /\ pipe[p].pc = "awaitScans"
    /\ \E i \in 1..Len(pipe[p].scans) : pipe[p].scans[i].state = "fulfilled"
    /\ LET fulfilled == SelectSeq(pipe[p].scans, LAMBDA scan : scan.state = "fulfilled")
           combinedScanResult ==
               CombineScanResults([i \in 1..Len(fulfilled) |-> fulfilled[i].result[1]])
       IN  pipe' = [pipe EXCEPT ![p] =
                       Step3([@ EXCEPT !.combined = Some(combinedScanResult)], app)]
    /\ Observed(p)
    /\ UNCHANGED <<options, adapter>>

\* await Promise.all(scanPromises) resumes with every result
PromiseAllFulfils(p, app) ==
    /\ pipe[p].pc = "awaitScans"
    /\ \A i \in 1..Len(pipe[p].scans) : pipe[p].scans[i].state = "fulfilled"
    /\ LET combinedScanResult == CombineScanResults(ScanResults(pipe[p]))
       IN  pipe' = [pipe EXCEPT ![p] =
                       Step3([@ EXCEPT !.combined = Some(combinedScanResult)], app)]
    /\ Observed(p)
    /\ UNCHANGED <<options, adapter>>

\* mutation: the handler waits until every scan call has fulfilled, and a
\* rejection is never picked up
PromiseAllIgnoresRejection(p) ==
    /\ pipe[p].pc = "awaitScans"
    /\ pipe[p].rejection # None
    /\ \A i \in 1..Len(pipe[p].scans) : pipe[p].scans[i].state = "fulfilled"
    /\ pipe' = [pipe EXCEPT ![p] = Catch(@, pipe[p].rejection[1])]
    /\ Observed(p)
    /\ UNCHANGED <<options, adapter>>

\* await Promise.all(scanPromises) throws the first rejection
PromiseAllRejects(p) ==
    /\ pipe[p].pc = "awaitScans"
    /\ pipe[p].rejection # None
    /\ pipe' = [pipe EXCEPT ![p] = Catch(@, pipe[p].rejection[1])]
    /\ Observed(p)
    /\ UNCHANGED <<options, adapter>>

\* mutation: passthrough is not honoured
AfterScanStepIgnoresPassthrough(rec, r, app) ==
    IF r = None THEN Catch(rec, TypeErrorValue)
    ELSE Step4(rec, app)

\* mutation: the return after the passthrough forward is missing
AfterScanStepFallsThrough(rec, r, app) ==
    IF r = None THEN Catch(rec, TypeErrorValue)
    ELSE IF r[1].passthrough
    THEN LET forwarded == Forward(rec, rec.message[1], app)
         IN  IF forwarded.pc = "threw" THEN forwarded
             ELSE Step4([forwarded EXCEPT !.pc = rec.pc], app)
    ELSE Step4(rec, app)

\* afterScanResult.passthrough, for what the onAfterScan hook returned
AfterScanStep(rec, r, app) ==
    IF r = None THEN Catch(rec, TypeErrorValue)
    ELSE IF r[1].passthrough THEN Forward(rec, rec.message[1], app)
    ELSE Step4(rec, app)

\* the onAfterScan hook returns r
AfterScanReturn(p, r, app) ==
    /\ pipe[p].pc = "awaitAfterScan"
    /\ pipe' = [pipe EXCEPT ![p] =
                   AfterScanStep([@ EXCEPT !.afterScanResult = Some(r)], r, app)]
    /\ Observed(p)
    /\ UNCHANGED <<options, adapter>>

\* unsafeResult.passthrough and what follows, for what onUnsafeMessage returned
UnsafeStep(rec, r, app) ==
    IF r = None THEN Catch(rec, TypeErrorValue)
    ELSE ForwardIfAny(rec, MessageToForward(rec.message[1], r[1], rec.combined[1]), app)

\* the onUnsafeMessage hook returns r
UnsafeMessageReturn(p, r, app) ==
    /\ pipe[p].pc = "awaitUnsafeMessage"
    /\ r \in UnsafeReturns(pipe[p].message[1])
    /\ pipe' = [pipe EXCEPT ![p] =
                   UnsafeStep([@ EXCEPT !.unsafeResult = Some(r)], r, app)]
    /\ Observed(p)
    /\ UNCHANGED <<options, adapter>>

\* every value a hook can hand back for the message in slot p
AllUnsafeReturns == UNION {UnsafeReturns(m) : m \in InboundMessages}

Handler(p, Messages) ==
    \/ Discard(p)
    \/ \E app \in AppOutcomes :
        \/ \E message \in Messages : Receive(p, message, app)
        \/ \E v \in ShouldScanReturns : ShouldScanReturn(p, v, app)
        \/ \E error \in HookFailures : HookThrows(p, error)
        \/ \E i \in 1..(MaxContent + 1), verdict \in Verdicts : ScanFulfils(p, i, verdict)
        \/ \E i \in 1..(MaxContent + 1), error \in ScanFailures : ScanRejects(p, i, error)
        \/ PromiseAllFulfils(p, app)
        \/ PromiseAllRejects(p)
        \/ \E r \in AfterScanReturns : AfterScanReturn(p, r, app)
        \/ \E r \in AllUnsafeReturns : UnsafeMessageReturn(p, r, app)

Next ==
    \/ Start
    \/ \E i \in 1..MaxPending : StartReturn(i)
    \/ \E p \in SequentialSlots : Handler(p, InboundMessages)

Spec == Init /\ [][Next]_vars

\* the handler's steps when no hook is configured, the scan client answers
\* and the application's onmessage returns
HandlerWithoutHooks(p, Messages) ==
    \/ Discard(p)
    \/ \E message \in Messages : Receive(p, message, None)
    \/ ScanFulfils(p, 1, SafeVerdict)
    \/ PromiseAllFulfils(p, None)

NextTransport ==
    \/ Construct
    \/ Start
    \/ \E i \in 1..MaxPending : StartReturn(i)
    \/ \E i \in 1..MaxPending, error \in WrappedFailures : StartRejects(i, error)
    \/ \E call \in SendCalls : Send(call[1], call[2])
    \/ \E i \in 1..MaxPending, outcome \in WrappedOutcomes : SendReturn(i, outcome)
    \/ Close
    \/ \E i \in 1..MaxPending, outcome \in WrappedOutcomes : CloseReturn(i, outcome)
    \/ \E version \in ProtocolVersions : SetProtocolVersion(version)
    \/ WrappedEmitsClose
    \/ \E error \in WrappedErrors : WrappedEmitsError(error)
    \/ \E sessionId \in SessionIds : WrappedSetsSessionId(sessionId)
    \/ \E p \in SequentialSlots : HandlerWithoutHooks(p, TransportInbound)

SpecTransport == InitTransport /\ [][NextTransport]_vars

\* the adapter with any of its hooks
InitExtract == Init

\* the handler up to the scan calls, for every shape of message
NextExtract ==
    \/ Start
    \/ \E i \in 1..MaxPending : StartReturn(i)
    \/ \E message \in ExtractMessages : Receive(1, message, None)
    \/ \E v \in ShouldScanReturns : ShouldScanReturn(1, v, None)

SpecExtract == InitExtract /\ [][NextExtract]_vars

\* the inbound messages of SpecClose
CloseMessages ==
    TransportInbound \cup {Notification("notifications/progress", SomeParams)}

\* the adapter with any of its hooks, closed by its caller at any time
NextClose ==
    \/ Start
    \/ \E i \in 1..MaxPending : StartReturn(i)
    \/ Close
    \/ \E i \in 1..MaxPending, outcome \in WrappedOutcomes : CloseReturn(i, outcome)
    \/ Handler(1, CloseMessages)

SpecClose == Init /\ [][NextClose]_vars

\* the inbound messages of SpecOverlap
OverlapMessages == {Request(7, "tools/call", SomeParams), Request(8, "ping", None)}

\* the adapter after a start that fulfilled, without hooks or with all three
InitOverlap ==
    /\ options \in {Options(WithoutHooks, TRUE, TRUE, FALSE),
                     Options([shouldScanMessage |-> TRUE, onAfterScan |-> TRUE,
                              onUnsafeMessage |-> TRUE], TRUE, TRUE, FALSE)}
    /\ adapter = [constructor(options).adapter EXCEPT !.wired = TRUE]
    /\ pipe = [p \in Slots |-> IdlePipeline]
    /\ wrapped = NewWrapped
    /\ caller = [NewCaller EXCEPT
                    !.started = TRUE,
                    !.lastCall = Some([op |-> "start", args |-> <<>>,
                                       started |-> FALSE, closed |-> FALSE,
                                       calls |-> <<Call("wrappedTransport.start", <<>>,
                                                        TRUE, None)>>,
                                       settled |-> TRUE, error |-> None])]

\* what the hooks and the scan client do for an invocation in flight
Responds(p) ==
    \/ \E v \in {Bool(TRUE), Bool(FALSE)} : ShouldScanReturn(p, v, None)
    \/ HookThrows(p, ErrorValue(TRUE, "hook error"))
    \/ \E verdict \in {SafeVerdict, ExfiltrationVerdict} : ScanFulfils(p, 1, verdict)
    \/ ScanRejects(p, 1, ErrorValue(TRUE, "fetch failed"))
    \/ \E r \in {Some([passthrough |-> TRUE]), Some([passthrough |-> FALSE])} :
          AfterScanReturn(p, r, None)
    \/ \E r \in {Some([passthrough |-> FALSE, replace |-> None]),
                  Some([passthrough |-> TRUE, replace |-> None])} :
          UnsafeMessageReturn(p, r, None)

\* the handler resumes after Promise.all
Resumes(p) ==
    \/ PromiseAllFulfils(p, None)
    \/ PromiseAllRejects(p)

\* every slot takes messages whatever the other slots are doing
NextOverlap ==
    \E p \in Slots :
        \/ \E message \in OverlapMessages : Receive(p, message, None)
        \/ Discard(p)
        \/ Responds(p)
        \/ Resumes(p)

SpecOverlap == InitOverlap /\ [][NextOverlap]_vars

\* every hook call and every scan call of every invocation returns or fails
\* in the end, and the event loop resumes a handler whose await has settled
FairSpecOverlap ==
    /\ SpecOverlap
    /\ \A p \in Slots : WF_vars(Responds(p)) /\ WF_vars(Resumes(p))

-----------------------------------------------------------------------------
(* Properties *)

\* a scan call of this invocation has rejected
\* a Response: a message with a result or an error and no method
IsResponse(m) == m.method = None /\ (m.result # None \/ m.error # None)

ScanHasFailed(rec) ==
    \E i \in 1..Len(rec.scans) : rec.scans[i].state = "rejected"

NoHooks ==
    ~options.shouldScanMessage /\ ~options.onAfterScan /\ ~options.onUnsafeMessage

\* the combined verdict of this invocation exists and is unsafe
Unsafe(rec) == rec.combined # None /\ ~rec.combined[1].is_safe

\* onUnsafeMessage returned an object r for this invocation
UnsafeHookReturned(rec) == rec.unsafeResult # None /\ rec.unsafeResult[1] # None

UnsafeHookResult(rec) == rec.unsafeResult[1][1]

\* the unsafe message was blocked with no replacement: by default, or because
\* onUnsafeMessage returned passthrough=false and no replace
BlockedWithoutReplacement(rec) ==
    /\ Unsafe(rec)
    /\ Settled(rec)
    /\ \/ /\ ~options.onUnsafeMessage
          /\ options.onAfterScan =>
                rec.afterScanResult = Some(Some([passthrough |-> FALSE]))
       \/ /\ UnsafeHookReturned(rec)
          /\ ~UnsafeHookResult(rec).passthrough
          /\ UnsafeHookResult(rec).replace = None

\* the text of the single text item of a CallToolResult
ToolResultText(msg) == msg.result[1].content[1].array[1].text[1]

\* msg carries the reserved code: as error.code, or inside the JSON text of a
\* tool result
CarriesReservedCode(msg) ==
    \/ /\ msg.error # None
       /\ msg.error[1].code = CENTURE_SECURITY_VIOLATION_ERROR
    \/ /\ msg.result # None
       /\ "json" \in DOMAIN ToolResultText(msg)
       /\ ToolResultText(msg).json.code = CENTURE_SECURITY_VIOLATION_ERROR

(* C1, as stated: whenever a scan call of an inbound message has failed,    *)
(* nothing is delivered to the application for that message, the handler    *)
(* does not return normally, and once it has thrown, onerror has fired      *)
(* exactly once and the failure is what the handler raised.                 *)
C1_OnerrorFiresOnceOnAnyScanFailure ==
    \A p \in Slots :
        ScanHasFailed(pipe[p]) =>
            /\ pipe[p].delivered = <<>>
            /\ pipe[p].pc # "returned"
            /\ pipe[p].pc = "threw" =>
                  /\ Len(pipe[p].reported) = 1
                  /\ pipe[p].raised = pipe[p].rejection

(* C1, amended: whenever a scan call of an inbound message has failed,      *)
(* nothing is delivered to the application for that message, the handler    *)
(* does not return normally, and once it has thrown, the first failure is   *)
(* what the handler raised and onerror has fired exactly once with it when  *)
(* it is an Error instance, and not at all when it is not.                  *)
C1_FailClosedOnScanFailure ==
    \A p \in Slots :
        ScanHasFailed(pipe[p]) =>
            /\ pipe[p].delivered = <<>>
            /\ pipe[p].pc # "returned"
            /\ pipe[p].pc = "threw" =>
                  /\ pipe[p].raised = pipe[p].rejection
                  /\ pipe[p].reported =
                        IF pipe[p].rejection[1].instanceofError
                        THEN <<pipe[p].rejection[1]>> ELSE <<>>

\* two image fragments, one scan fulfilled and the other failed with an Error:
\* the handler has thrown, onerror has fired once, nothing was delivered
C1_Witness ==
    \E p \in Slots :
        /\ pipe[p].pc = "threw"
        /\ Len(pipe[p].scans) = 2
        /\ \A i \in 1..2 : pipe[p].scans[i].kind = "image"
        /\ pipe[p].scans[1].state = "fulfilled"
        /\ pipe[p].scans[2].state = "rejected"
        /\ pipe[p].rejection[1].instanceofError
        /\ pipe[p].reported = <<pipe[p].rejection[1]>>
        /\ pipe[p].delivered = <<>>

(* C2: with no hooks configured, an unsafe inbound Request results in       *)
(* exactly one message delivered to the application, a response with the    *)
(* Request's id that carries the reserved error code -32001; an unsafe      *)
(* inbound Notification results in nothing being delivered.                 *)
C2_DefaultBlock ==
    \A p \in Slots :
        (NoHooks /\ Unsafe(pipe[p])) =>
            LET message == pipe[p].message[1]
                sent == pipe[p].delivered
            IN  /\ IsRequest(message) =>
                      /\ Len(sent) = 1
                      /\ sent[1].id = message.id
                      /\ sent[1].method = None
                      /\ CarriesReservedCode(sent[1])
                      /\ sent[1] # message
                /\ IsNotification(message) =>
                      /\ sent = <<>>
                      /\ pipe[p].pc = "returned"

\* an unsafe Request with id 0 and no hooks: one error response with id 0
C2_Witness ==
    \E p \in Slots :
        /\ NoHooks
        /\ Unsafe(pipe[p])
        /\ IsRequest(pipe[p].message[1])
        /\ pipe[p].message[1].id = Some(0)
        /\ Len(pipe[p].delivered) = 1
        /\ pipe[p].delivered[1].id = Some(0)
        /\ pipe[p].delivered[1].error # None
        /\ pipe[p].delivered[1].error[1].code = CENTURE_SECURITY_VIOLATION_ERROR

(* C3: when an unsafe inbound Response (a message with a result or an       *)
(* error and no method) is blocked without a replacement, nothing is        *)
(* delivered to the application for it.                                     *)
C3_BlockedResponseIsDropped ==
    \A p \in Slots :
        (BlockedWithoutReplacement(pipe[p]) /\ IsResponse(pipe[p].message[1])) =>
            pipe[p].delivered = <<>>

(* C4: the message synthesized for a blocked Request has the Request's id;  *)
(* for the method tools/call it is a response with a result whose isError   *)
(* is true and whose one text item is the JSON text of the reserved code,   *)
(* the block message and the combined verdict's categories, and it has no   *)
(* error; for every other method it is a response with no result and an     *)
(* error with the reserved code, the block message, the combined verdict's  *)
(* categories and the reason.                                               *)
C4_ErrorSynthesis ==
    \A p \in Slots :
        (BlockedWithoutReplacement(pipe[p]) /\ IsRequest(pipe[p].message[1])) =>
            LET message == pipe[p].message[1]
                categories == pipe[p].combined[1].categories
                sent == pipe[p].delivered
            IN  /\ Len(sent) = 1
                /\ sent[1].id = message.id
                /\ sent[1].method = None
                /\ IF message.method = Some("tools/call")
                   THEN /\ sent[1].error = None
                        /\ sent[1].result # None
                        /\ sent[1].result[1].isError = TRUE
                        /\ Len(sent[1].result[1].content[1].array) = 1
                        /\ sent[1].result[1].content[1].array[1].type = "text"
                        /\ "json" \in DOMAIN ToolResultText(sent[1])
                        /\ ToolResultText(sent[1]).json.code =
                              CENTURE_SECURITY_VIOLATION_ERROR
                        /\ ToolResultText(sent[1]).json.message = BlockMessage
                        /\ ToolResultText(sent[1]).json.data.categories = categories
                   ELSE /\ sent[1].result = None
                        /\ sent[1].error # None
                        /\ sent[1].error[1].code = CENTURE_SECURITY_VIOLATION_ERROR
                        /\ sent[1].error[1].message = BlockMessage
                        /\ sent[1].error[1].data.categories = categories
                        /\ sent[1].error[1].data.reason = BlockReason

\* the tools/call Request with id 7, one text fragment judged unsafe with the
\* category data_exfiltration, no hooks: a result with isError and that code
C4_Witness ==
    \E p \in Slots :
        /\ NoHooks
        /\ pipe[p].pc = "returned"
        /\ pipe[p].message = Some(Request(7, "tools/call", SomeParams))
        /\ ScanResults(pipe[p]) = <<ExfiltrationVerdict>>
        /\ Len(pipe[p].delivered) = 1
        /\ pipe[p].delivered[1].id = Some(7)
        /\ pipe[p].delivered[1].result[1].isError = TRUE
        /\ ToolResultText(pipe[p].delivered[1]).json.data.categories[1].code =
              "data_exfiltration"

\* extraction would find something to scan in the message
HasContent(message) ==
    extractContentForScanning(message) # Fragments(<<>>, <<>>)

(* C5: once the shouldScanMessage hook has returned false for a message,    *)
(* extraction is never invoked, no scan call is made, neither onAfterScan   *)
(* nor onUnsafeMessage is invoked, and the one message delivered is the     *)
(* original; and with no shouldScanMessage hook every received message      *)
(* goes to extraction without a hook call.                                  *)
C5_SkipWhenShouldScanIsFalse ==
    \A p \in Slots :
        /\ pipe[p].shouldScanResult = Some(Bool(FALSE)) =>
              /\ options.shouldScanMessage
              /\ pipe[p].extractCalls = 0
              /\ pipe[p].scans = <<>>
              /\ pipe[p].combined = None
              /\ pipe[p].afterScanCalls = 0
              /\ pipe[p].unsafeCalls = 0
              /\ pipe[p].delivered = <<pipe[p].message[1]>>
        /\ (~options.shouldScanMessage /\ pipe[p].pc # "idle") =>
              /\ pipe[p].shouldScanCalls = 0
              /\ pipe[p].extractCalls = 1

\* the hook returned false for a message with two scannable fragments, and
\* the message went to the application unscanned
C5_Witness ==
    \E p \in Slots :
        /\ pipe[p].pc = "returned"
        /\ pipe[p].shouldScanResult = Some(Bool(FALSE))
        /\ Len(extractContentForScanning(pipe[p].message[1]).texts) = 1
        /\ Len(extractContentForScanning(pipe[p].message[1]).images) = 1
        /\ pipe[p].scans = <<>>
        /\ pipe[p].delivered = <<pipe[p].message[1]>>

(* C6: once the onAfterScan hook has returned passthrough=true, the one     *)
(* message delivered is the original, whatever the combined verdict, and    *)
(* onUnsafeMessage is never invoked for that message.                       *)
C6_AfterScanPassthrough ==
    \A p \in Slots :
        pipe[p].afterScanResult = Some(Some([passthrough |-> TRUE])) =>
            /\ pipe[p].delivered = <<pipe[p].message[1]>>
            /\ pipe[p].unsafeCalls = 0
            /\ pipe[p].unsafeResult = None

\* an unsafe verdict, an onUnsafeMessage hook configured, and onAfterScan
\* returned passthrough=true: the original was delivered
C6_Witness ==
    \E p \in Slots :
        /\ options.onUnsafeMessage
        /\ Unsafe(pipe[p])
        /\ pipe[p].afterScanResult = Some(Some([passthrough |-> TRUE]))
        /\ pipe[p].pc = "returned"
        /\ pipe[p].delivered = <<pipe[p].message[1]>>

(* C7: once onUnsafeMessage has returned passthrough=false with a replace   *)
(* message X, the one message delivered is X, whether the inbound message   *)
(* is a Request, a Notification or a Response.                              *)
C7_ReplaceIsForwarded ==
    \A p \in Slots :
        (/\ UnsafeHookReturned(pipe[p])
         /\ ~UnsafeHookResult(pipe[p]).passthrough
         /\ UnsafeHookResult(pipe[p]).replace # None) =>
            pipe[p].delivered = <<UnsafeHookResult(pipe[p]).replace[1]>>

\* an unsafe Notification, which would be dropped by default, replaced by
\* the hook's error response
C7_Witness ==
    \E p \in Slots :
        /\ Unsafe(pipe[p])
        /\ IsNotification(pipe[p].message[1])
        /\ pipe[p].unsafeResult =
              Some(Some([passthrough |-> FALSE,
                         replace |-> Some(ReplacementError(pipe[p].message[1]))]))
        /\ pipe[p].delivered = <<ReplacementError(pipe[p].message[1])>>
        /\ pipe[p].pc = "returned"

(* C8: once onUnsafeMessage has returned passthrough=true, the one message  *)
(* delivered is the hook's replace message when there is one and the        *)
(* original otherwise; it is never a synthesized error response.            *)
C8_UnsafePassthrough ==
    \A p \in Slots :
        (UnsafeHookReturned(pipe[p]) /\ UnsafeHookResult(pipe[p]).passthrough) =>
            LET r == UnsafeHookResult(pipe[p])
                message == pipe[p].message[1]
            IN  /\ pipe[p].delivered =
                      <<IF r.replace # None THEN r.replace[1] ELSE message>>
                /\ message.id # None =>
                      pipe[p].delivered[1] #
                          createErrorResponse(message.id[1], message.method,
                                              pipe[p].combined[1])

\* an unsafe Request passed through with a replace message other than itself
C8_Witness ==
    \E p \in Slots :
        /\ Unsafe(pipe[p])
        /\ IsRequest(pipe[p].message[1])
        /\ pipe[p].unsafeResult =
              Some(Some([passthrough |-> TRUE, replace |-> Some(ReplacementNotice)]))
        /\ pipe[p].delivered = <<ReplacementNotice>>

\* an unsafe Request passed through with no replace: the original is delivered
C8_WitnessOriginal ==
    \E p \in Slots :
        /\ Unsafe(pipe[p])
        /\ IsRequest(pipe[p].message[1])
        /\ pipe[p].unsafeResult =
              Some(Some([passthrough |-> TRUE, replace |-> None]))
        /\ pipe[p].delivered = <<pipe[p].message[1]>>

(* C9: for every inbound message whose extraction has run and yields no     *)
(* text and no image fragment, no scan call is made, no combined verdict    *)
(* is built, neither onAfterScan nor onUnsafeMessage is invoked, and the    *)
(* one message delivered is the original.                                   *)
C9_NoContentPassesThrough ==
    \A p \in Slots :
        (pipe[p].extractCalls > 0 /\ ~HasContent(pipe[p].message[1])) =>
            /\ pipe[p].scans = <<>>
            /\ pipe[p].combined = None
            /\ pipe[p].afterScanCalls = 0
            /\ pipe[p].unsafeCalls = 0
            /\ pipe[p].delivered = <<pipe[p].message[1]>>

\* a Response whose content array holds only an item of an unscanned type,
\* with all three hooks configured: delivered with no scan and no later hook
C9_Witness ==
    \E p \in Slots :
        /\ options.shouldScanMessage /\ options.onAfterScan /\ options.onUnsafeMessage
        /\ pipe[p].message =
              Some(Response(7, Result(Some(ArrayContent(<<AudioItem>>)), "r")))
        /\ pipe[p].shouldScanResult = Some(Bool(TRUE))
        /\ pipe[p].extractCalls = 1
        /\ pipe[p].pc = "returned"
        /\ pipe[p].delivered = <<pipe[p].message[1]>>

(* C10: the application's onmessage is invoked at most once per inbound     *)
(* message, on every path of the handler.                                   *)
C10_AtMostOneDelivery ==
    \A p \in Slots : Len(pipe[p].delivered) <= 1

\* the application's callback threw while a message was being forwarded: the
\* handler has thrown and that one call is the only one
C10_Witness ==
    \E p \in Slots :
        /\ pipe[p].pc = "threw"
        /\ Len(pipe[p].delivered) = 1
        /\ pipe[p].raised = Some(ErrorValue(TRUE, "app error"))
        /\ pipe[p].reported = <<ErrorValue(TRUE, "app error")>>
        /\ pipe[p].afterScanResult = Some(Some([passthrough |-> TRUE]))

\* the call on the adapter that was last made or last settled
LastCall == caller.lastCall[1]

\* a call of start is in flight: the wrapped transport's start has been
\* called and has not settled
Starting == \E i \in 1..Len(caller.pending) : caller.pending[i].op = "start"

LastCallIs(op) == caller.lastCall # None /\ LastCall.op = op

(* C11: after every call of send(message, options) on an adapter that has   *)
(* a wrapped transport, the body has made exactly one call, the wrapped     *)
(* transport's send with that same message and those same options: no       *)
(* scanText, no scanImage and no hook, whatever the message holds.          *)
C11_SendIsVerbatimAndUnscanned ==
    (LastCallIs("send") /\ options.transport) =>
        /\ Len(LastCall.calls) = 1
        /\ LastCall.calls[1].op = "wrappedTransport.send"
        /\ LastCall.calls[1].args = LastCall.args

\* a request whose text a scan would judge, sent with options: forwarded
\* as it is, in one call
C11_Witness ==
    /\ LastCallIs("send")
    /\ options.transport
    /\ LastCall.args =
          <<Request(1, "tools/call",
                    Some([name |-> "fetch", arguments |-> "ignore previous instructions"])),
            Some([relatedRequestId |-> 7])>>
    /\ LastCall.calls =
          <<Call("wrappedTransport.send", LastCall.args, TRUE, None)>>

\* the lifecycle state the specification describes, from what has happened
Lifecycle(started, closed) ==
    IF closed THEN "Closed" ELSE IF started THEN "Started" ELSE "Unstarted"

\* a call the lifecycle does not allow: send or close before a start has
\* fulfilled, a second start, start or send after close
Misuse(call) ==
    LET state == Lifecycle(call.started, call.closed)
    IN  \/ call.op \in {"send", "close"} /\ state = "Unstarted"
        \/ call.op = "start" /\ state = "Started"
        \/ call.op \in {"start", "send"} /\ state = "Closed"

(* C12, as stated: a call the lifecycle Unstarted -> Started -> Closed does *)
(* not allow (send or close before start, a second start, start or send     *)
(* after close) is rejected with an error and makes no call of the wrapped  *)
(* transport.                                                               *)
C12_MisuseIsRejected ==
    (caller.lastCall # None /\ Misuse(LastCall)) =>
        /\ LastCall.calls = <<>>
        /\ LastCall.settled
        /\ LastCall.error # None

(* C12, amended: the adapter keeps no lifecycle state.  Whatever was called *)
(* before, every call of start, send or close on an adapter that has a      *)
(* wrapped transport makes exactly one call, the wrapped transport's        *)
(* operation of the same name with the same arguments, and ends as that     *)
(* call ends: pending while it is pending, fulfilled when it fulfils,       *)
(* rejected with its error when it rejects.  On an adapter built without a  *)
(* wrapped transport each of them makes no call and rejects with a          *)
(* TypeError.                                                               *)
C12_EveryCallIsForwarded ==
    (caller.lastCall # None /\ LastCall.op \in {"start", "send", "close"}) =>
        IF options.transport
        THEN /\ Len(LastCall.calls) = 1
             /\ LastCall.calls[1] =
                   Call(IF LastCall.op = "start" THEN "wrappedTransport.start"
                        ELSE IF LastCall.op = "send" THEN "wrappedTransport.send"
                        ELSE "wrappedTransport.close",
                        LastCall.args, LastCall.settled, LastCall.error)
        ELSE /\ LastCall.calls = <<>>
             /\ LastCall.settled
             /\ LastCall.error = Some(TypeErrorValue)

\* close before any start: forwarded to the wrapped transport and fulfilled
C12_Witness ==
    /\ LastCallIs("close")
    /\ options.transport
    /\ Misuse(LastCall)
    /\ Lifecycle(LastCall.started, LastCall.closed) = "Unstarted"
    /\ LastCall.calls = <<Call("wrappedTransport.close", <<>>, TRUE, None)>>
    /\ LastCall.error = None

\* the application's onmessage callback threw while a message was forwarded
AppThrew(rec) == rec.raised # None /\ rec.raised \in AppOutcomes

(* C13, as stated: once a hook (shouldScanMessage, onAfterScan or           *)
(* onUnsafeMessage) has thrown or rejected, the handler has thrown that     *)
(* error, onerror has fired exactly once with it, and nothing was           *)
(* delivered to the application.                                            *)
C13_HookFailureAlwaysReported ==
    \A p \in Slots :
        pipe[p].hookFailure # None =>
            /\ pipe[p].pc = "threw"
            /\ pipe[p].raised = pipe[p].hookFailure
            /\ pipe[p].reported = <<pipe[p].hookFailure[1]>>
            /\ pipe[p].delivered = <<>>

(* C13, amended: once a hook has thrown or rejected, the handler has thrown *)
(* that value and nothing was delivered to the application; onerror has    *)
(* fired exactly once with it when it is an Error instance, and not at all  *)
(* when it is not: the same as for a scan failure.                          *)
C13_HookFailureAbortsPipeline ==
    \A p \in Slots :
        pipe[p].hookFailure # None =>
            /\ pipe[p].pc = "threw"
            /\ pipe[p].raised = pipe[p].hookFailure
            /\ pipe[p].reported =
                  IF pipe[p].hookFailure[1].instanceofError
                  THEN <<pipe[p].hookFailure[1]>> ELSE <<>>
            /\ pipe[p].delivered = <<>>

\* onUnsafeMessage threw an Error after the scans found the message unsafe:
\* reported once, raised, nothing delivered
C13_Witness ==
    \E p \in Slots :
        /\ Unsafe(pipe[p])
        /\ pipe[p].unsafeCalls = 1
        /\ pipe[p].hookFailure = Some(ErrorValue(TRUE, "hook error"))
        /\ pipe[p].reported = <<ErrorValue(TRUE, "hook error")>>
        /\ pipe[p].raised = pipe[p].hookFailure
        /\ pipe[p].delivered = <<>>

(* C14: whenever all scan calls of a message have succeeded, no hook has    *)
(* thrown and the application's own callback has not thrown, onerror has    *)
(* not been invoked for the message and the handler has not raised,         *)
(* whatever the combined verdict and the disposition.                       *)
C14_ThreatIsNeverAFault ==
    \A p \in Slots :
        (/\ pipe[p].combined # None
         /\ pipe[p].hookFailure = None
         /\ ~AppThrew(pipe[p])) =>
            /\ pipe[p].reported = <<>>
            /\ pipe[p].raised = None
            /\ pipe[p].pc # "threw"

(* C15: the close and error events the adapter has handed to the            *)
(* application's onclose and onerror are exactly the events the wrapped     *)
(* transport has emitted since start wired it, one for one, in the same     *)
(* order and with the same error values.                                    *)
C15_EventsForwardedOneForOne ==
    caller.events = wrapped.emitted

\* an error that is not an Error instance and then a close, both forwarded
C15_Witness ==
    /\ wrapped.emitted =
          <<[event |-> "error", error |-> ErrorValue(FALSE, "connection lost")],
            [event |-> "close"]>>
    /\ caller.events = wrapped.emitted

(* C16: once the shouldScanMessage hook has returned the object             *)
(* { scan: false }, no extraction and no scan call is made and the one      *)
(* message delivered is the original, as when it returns false.             *)
C16_ScanFalseObjectSkips ==
    \A p \in Slots :
        pipe[p].shouldScanResult = Some([scan |-> FALSE]) =>
            /\ pipe[p].extractCalls = 0
            /\ pipe[p].scans = <<>>
            /\ pipe[p].delivered = <<pipe[p].message[1]>>

(* C17: once the onAfterScan hook has returned no value (and the            *)
(* application's own callback has not thrown), no error is reported or      *)
(* raised; a safe message is delivered unchanged, and an unsafe one goes    *)
(* on to unsafe-message resolution.                                         *)
C17_VoidAfterScanChangesNothing ==
    \A p \in Slots :
        (pipe[p].afterScanResult = Some(None) /\ ~AppThrew(pipe[p])) =>
            /\ pipe[p].reported = <<>>
            /\ pipe[p].raised = None
            /\ pipe[p].combined[1].is_safe =>
                  pipe[p].delivered = <<pipe[p].message[1]>>
            /\ (~pipe[p].combined[1].is_safe /\ options.onUnsafeMessage) =>
                  pipe[p].unsafeCalls = 1

(* C18: after every call of send(message, options) on an adapter built     *)
(* with an onBeforeSend hook and a wrapped transport, the body has called   *)
(* the hook with the message and then the wrapped transport's send.         *)
C18_OnBeforeSendIsCalled ==
    (LastCallIs("send") /\ options.onBeforeSend /\ options.transport) =>
        /\ Len(LastCall.calls) = 2
        /\ LastCall.calls[1].op = "onBeforeSend"
        /\ LastCall.calls[1].args = <<LastCall.args[1]>>
        /\ LastCall.calls[2].op = "wrappedTransport.send"

(* C19: an adapter whose options lack the scan client or the wrapped        *)
(* transport is never constructed: the constructor call ends with an error  *)
(* and no start, send, close or inbound message follows it.                 *)
C19_ConstructorFailsFast ==
    ((~options.transport \/ ~options.client) /\ adapter.pc # "new") =>
        /\ LastCallIs("constructor")
        /\ LastCall.error # None
        /\ \A p \in Slots : pipe[p].pc = "idle"

\* the categories of the results before the i-th
RECURSIVE CategoriesBefore(_, _)
CategoriesBefore(scanResults, i) ==
    IF i = 1 THEN 0
    ELSE CategoriesBefore(scanResults, i - 1) + Len(scanResults[i - 1].categories)

(* C20: the combined verdict of a message is built from at least one        *)
(* fragment verdict; its is_safe is true exactly when every fragment        *)
(* verdict's is; its categories are the fragment verdicts' categories one   *)
(* after the other in the order of the scan calls (texts, then images),     *)
(* each in its own order and with duplicates kept, so that their number is  *)
(* the sum of the fragment verdicts' numbers of categories.                 *)
C20_CombinedVerdictFold ==
    \A p \in Slots :
        pipe[p].combined # None =>
            LET verdicts == ScanResults(pipe[p])
                combinedScanResult == pipe[p].combined[1]
                n == Len(verdicts)
            IN  /\ n >= 1
                /\ combinedScanResult.is_safe = (\A i \in 1..n : verdicts[i].is_safe)
                /\ Len(combinedScanResult.categories) =
                      CategoriesBefore(verdicts, n) + Len(verdicts[n].categories)
                /\ \A i \in 1..n : \A j \in 1..Len(verdicts[i].categories) :
                      combinedScanResult.categories[CategoriesBefore(verdicts, i) + j] =
                          verdicts[i].categories[j]
                /\ \A i \in 1..n : \A j \in 1..n :
                      (pipe[p].scans[i].kind = "image" /\ pipe[p].scans[j].kind = "text")
                          => j < i

\* two fragments, judged with two and with one category, one category being
\* in both verdicts: three categories, the repeated one kept
C20_Witness ==
    \E p \in Slots :
        /\ pipe[p].combined # None
        /\ ScanResults(pipe[p]) = <<InjectionVerdict, ExfiltrationVerdict>>
        /\ pipe[p].combined[1].categories =
              <<Category("context_injection", "medium"),
                Category("data_exfiltration", "medium"),
                Category("data_exfiltration", "high")>>
        /\ ~pipe[p].combined[1].is_safe

\* the request units of the first n results
RECURSIVE UnitsUpTo(_, _)
UnitsUpTo(scanResults, n) ==
    IF n = 0 THEN 0 ELSE UnitsUpTo(scanResults, n - 1) + scanResults[n].request_units

\* the i-th scan call of a message is for the i-th text while there are
\* texts, and for the images after that
InDispatchOrder(rec) ==
    LET fragments == extractContentForScanning(rec.message[1])
        nTexts == Len(fragments.texts)
        nImages == Len(fragments.images)
    IN  /\ Len(rec.scans) = nTexts + nImages
        /\ \A i \in 1..nTexts :
              rec.scans[i].kind = "text" /\ rec.scans[i].content = fragments.texts[i]
        /\ \A j \in 1..nImages :
              /\ rec.scans[nTexts + j].kind = "image"
              /\ rec.scans[nTexts + j].content = fragments.images[j]

(* C21: the combined verdict's request_units is the sum of the fragment     *)
(* verdicts' request_units; its request_id, api_key_id and service_tier are *)
(* those of the verdict of the first scan call, and the scan calls are the  *)
(* texts in extraction order followed by the images in extraction order.    *)
C21_CombinedUsageAndMetadata ==
    \A p \in Slots :
        pipe[p].combined # None =>
            LET verdicts == ScanResults(pipe[p])
                combinedScanResult == pipe[p].combined[1]
            IN  /\ combinedScanResult.request_units = UnitsUpTo(verdicts, Len(verdicts))
                /\ combinedScanResult.request_id = verdicts[1].request_id
                /\ combinedScanResult.api_key_id = verdicts[1].api_key_id
                /\ combinedScanResult.service_tier = verdicts[1].service_tier
                /\ InDispatchOrder(pipe[p])

\* an image item before a text item: the first scan call is the text's, and
\* the metadata is its verdict's although the image comes first in the array
C21_Witness ==
    \E p \in Slots :
        /\ pipe[p].combined # None
        /\ pipe[p].message =
              Some(Response(7, Result(Some(ArrayContent(
                  <<ImageItem(Lit("iVBORw0KGgo=")), TextItem(Lit("hello"))>>)), "r")))
        /\ pipe[p].scans[1].kind = "text"
        /\ ScanResults(pipe[p]) = <<ExfiltrationVerdict, SafeVerdict>>
        /\ pipe[p].combined[1].request_id = "req-2"
        /\ pipe[p].combined[1].api_key_id = "key-2"
        /\ pipe[p].combined[1].service_tier = "dedicated"
        /\ pipe[p].combined[1].request_units = 3

\* the hook's answer let the message be scanned
NotSkipped(rec) ==
    rec.shouldScanResult = None \/ rec.shouldScanResult # Some(Bool(FALSE))

(* C22: with an onAfterScan hook, the hook has been invoked once for every  *)
(* message whose scan results have been combined, safe or unsafe, and not   *)
(* at all for any other (skipped, without fragments, with a failed or       *)
(* pending scan call); every scan call of the message had fulfilled by      *)
(* then, and onUnsafeMessage is invoked only after onAfterScan has          *)
(* returned.  Without the hook it is never invoked.                         *)
C22_AfterScanOncePerAggregation ==
    \A p \in Slots :
        /\ pipe[p].afterScanCalls =
              IF options.onAfterScan /\ pipe[p].combined # None THEN 1 ELSE 0
        /\ pipe[p].afterScanCalls = 1 =>
              /\ pipe[p].scans # <<>>
              /\ \A i \in 1..Len(pipe[p].scans) : pipe[p].scans[i].state = "fulfilled"
              /\ NotSkipped(pipe[p])
        /\ (options.onAfterScan /\ pipe[p].unsafeCalls > 0) =>
              pipe[p].afterScanResult # None

\* a safe message: onAfterScan was invoked once, returned passthrough=false,
\* and the message was delivered
C22_Witness ==
    \E p \in Slots :
        /\ options.onAfterScan
        /\ pipe[p].combined # None
        /\ pipe[p].combined[1].is_safe
        /\ pipe[p].afterScanCalls = 1
        /\ pipe[p].afterScanResult = Some(Some([passthrough |-> FALSE]))
        /\ Len(pipe[p].scans) = 2
        /\ pipe[p].delivered = <<pipe[p].message[1]>>

(* C23: onUnsafeMessage is invoked at most once for a message, and only     *)
(* when the hook is configured, the combined verdict is unsafe and          *)
(* onAfterScan has not returned passthrough=true; when the combined verdict *)
(* is safe, onUnsafeMessage is not invoked, and the original message is the *)
(* one message delivered as soon as onAfterScan is absent or has returned   *)
(* an object, whatever its passthrough.                                     *)
C23_UnsafeHookOnlyWhenUnsafe ==
    \A p \in Slots :
        /\ pipe[p].unsafeCalls \in {0, 1}
        /\ pipe[p].unsafeCalls = 1 =>
              /\ options.onUnsafeMessage
              /\ Unsafe(pipe[p])
              /\ pipe[p].afterScanResult # Some(Some([passthrough |-> TRUE]))
        /\ (pipe[p].combined # None /\ pipe[p].combined[1].is_safe) =>
              /\ pipe[p].unsafeCalls = 0
              /\ pipe[p].unsafeResult = None
              /\ (\/ ~options.onAfterScan
                  \/ pipe[p].afterScanResult \in
                        {Some(Some([passthrough |-> b])) : b \in BOOLEAN}) =>
                    pipe[p].delivered = <<pipe[p].message[1]>>

\* all three hooks configured, a safe verdict, onAfterScan returned
\* passthrough=false: delivered without asking onUnsafeMessage
C23_Witness ==
    \E p \in Slots :
        /\ options.onUnsafeMessage
        /\ options.onAfterScan
        /\ pipe[p].combined = Some(SafeVerdict)
        /\ pipe[p].afterScanResult = Some(Some([passthrough |-> FALSE]))
        /\ pipe[p].unsafeCalls = 0
        /\ pipe[p].pc = "returned"
        /\ pipe[p].delivered = <<pipe[p].message[1]>>

(* C24: once a message's content has been extracted, there is exactly one   *)
(* scan call per fragment, scanText for each text and scanImage for each    *)
(* image, all issued together; and while any of them is pending, nothing    *)
(* has been delivered to the application, no combined verdict exists and    *)
(* neither onAfterScan nor onUnsafeMessage has been invoked.                *)
C24_NoPartialResults ==
    \A p \in Slots :
        /\ pipe[p].extractCalls \in {0, 1}
        /\ pipe[p].extractCalls = 0 => pipe[p].scans = <<>>
        /\ pipe[p].extractCalls = 1 => InDispatchOrder(pipe[p])
        /\ (\E i \in 1..Len(pipe[p].scans) : pipe[p].scans[i].state = "pending") =>
              /\ pipe[p].delivered = <<>>
              /\ pipe[p].combined = None
              /\ pipe[p].afterScanCalls = 0
              /\ pipe[p].unsafeCalls = 0

\* two scan calls, the text's fulfilled with a safe verdict and the image's
\* still pending: the handler is waiting and nothing has been delivered
C24_Witness ==
    \E p \in Slots :
        /\ pipe[p].pc = "awaitScans"
        /\ Len(pipe[p].scans) = 2
        /\ pipe[p].scans[1].kind = "text"
        /\ pipe[p].scans[1].state = "fulfilled"
        /\ pipe[p].scans[1].result = Some(SafeVerdict)
        /\ pipe[p].scans[2].kind = "image"
        /\ pipe[p].scans[2].state = "pending"
        /\ pipe[p].delivered = <<>>

\* the field is there; the field is there and not the empty string
Present(field) == field # None

NonEmpty(field) == field # None /\ field[1] # Lit("")

\* this step is a call of start fulfilling
StartFulfils ==
    /\ Len(caller'.pending) < Len(caller.pending)
    /\ caller'.lastCall # None
    /\ caller'.lastCall[1].op = "start"
    /\ caller'.lastCall[1].settled
    /\ caller'.lastCall[1].error = None

\* wiring and setProtocolVersion: whenever the wrapped transport's start has
\* been invoked, its callbacks are already the adapter's; once start has
\* wired it, the adapter has a setProtocolVersion exactly when the wrapped
\* transport has one, and every call setProtocolVersion(v) makes one call,
\* the wrapped transport's setProtocolVersion with the same v
WiredBeforeStarted ==
    /\ Starting => adapter.wired
    /\ (LastCallIs("start") /\ LastCall.calls # <<>>) => adapter.wired
    /\ adapter.setProtocolVersion = (adapter.wired /\ wrapped.setProtocolVersion)
    /\ LastCallIs("setProtocolVersion") =>
          LastCall.calls =
              <<Call("wrappedTransport.setProtocolVersion", LastCall.args, TRUE, None)>>

(* C26, as stated: whenever the wrapped transport's start has been invoked, *)
(* its onclose, onerror and onmessage callbacks are already the adapter's;  *)
(* when a call of start fulfils, the adapter's sessionId is the wrapped     *)
(* transport's if that has one; once start has wired it, the adapter has a  *)
(* setProtocolVersion exactly when the wrapped transport has one, and       *)
(* every call setProtocolVersion(v) makes one call, the wrapped             *)
(* transport's setProtocolVersion with the same v.                          *)
C26_WiredBeforeStarted ==
    /\ []WiredBeforeStarted
    /\ [][(StartFulfils /\ wrapped'.sessionId # None) =>
             adapter'.sessionId = wrapped'.sessionId]_vars

(* C26, amended: wiring and setProtocolVersion as stated.  When a call of   *)
(* start fulfils, the adapter's sessionId becomes the wrapped transport's   *)
(* sessionId of that moment if that is a non-empty string, and stays what   *)
(* it was if the wrapped transport's is absent or the empty string; no      *)
(* other step changes the adapter's sessionId, so a sessionId the wrapped   *)
(* transport takes or changes afterwards is not seen until the next start.  *)
C26_SessionIdCopiedWhenTruthy ==
    /\ []WiredBeforeStarted
    /\ [][StartFulfils =>
             adapter'.sessionId =
                IF NonEmpty(wrapped'.sessionId) THEN wrapped'.sessionId
                ELSE adapter.sessionId]_vars
    /\ [][~StartFulfils => adapter'.sessionId = adapter.sessionId]_vars

\* an inbound message went through the handler while the wrapped
\* transport's start was still pending; an earlier start had fulfilled and
\* copied the session id, which the wrapped transport has since replaced
\* by the empty string; the adapter has the setProtocolVersion closure
C26_Witness ==
    /\ Starting
    /\ caller.started
    /\ adapter.wired
    /\ pipe[1].pc = "awaitScans"
    /\ adapter.sessionId = Some(Lit("session-1"))
    /\ wrapped.sessionId = Some(Lit(""))
    /\ adapter.setProtocolVersion

\* what the scan client was called with for this message: the texts, and
\* the images, each in call order
ScannedTexts(rec) ==
    LET calls == SelectSeq(rec.scans, LAMBDA scan : scan.kind = "text")
    IN  [i \in 1..Len(calls) |-> calls[i].content]

ScannedImages(rec) ==
    LET calls == SelectSeq(rec.scans, LAMBDA scan : scan.kind = "image")
    IN  [i \in 1..Len(calls) |-> calls[i].content]

\* one text per text item with a text, in item order
TextsOfItems(items, Has(_)) ==
    LET chosen == SelectSeq(items, LAMBDA item : item.type = "text" /\ Has(item.text))
    IN  [i \in 1..Len(chosen) |-> chosen[i].text[1]]

\* one image per image item with data and per resource item with a blob of
\* a recognized image type, in item order
ImagesOfItems(items, Has(_)) ==
    LET chosen == SelectSeq(items, LAMBDA item :
                      \/ item.type = "image" /\ Has(item.data)
                      \/ /\ item.type = "resource"
                         /\ item.resource # None
                         /\ Has(item.resource[1].blob)
                         /\ isImageMimeType(item.resource[1].mimeType))
    IN  [i \in 1..Len(chosen) |->
            IF chosen[i].type = "image" THEN chosen[i].data[1]
            ELSE chosen[i].resource[1].blob[1]]

\* the message of this invocation has been extracted and its result holds a
\* content array
ExtractedArray(rec) ==
    /\ rec.extractCalls = 1
    /\ rec.message[1].result # None
    /\ rec.message[1].result[1].content # None
    /\ IsArray(rec.message[1].result[1].content[1])

ItemsOf(rec) == rec.message[1].result[1].content[1].array

(* C27, as stated: for a result with a content array, the texts scanned are *)
(* the text of every text item that has a text field, the images scanned    *)
(* are the data of every image item that has a data field and the blob of   *)
(* every resource item of a recognized image type that has a blob, each in  *)
(* item order, and nothing else is scanned.                                 *)
C27_OneFragmentPerItemWithField ==
    \A p \in Slots :
        ExtractedArray(pipe[p]) =>
            /\ ScannedTexts(pipe[p]) = TextsOfItems(ItemsOf(pipe[p]), Present)
            /\ ScannedImages(pipe[p]) = ImagesOfItems(ItemsOf(pipe[p]), Present)

(* C27, amended: for a result with a content array, the texts scanned are   *)
(* the text of every text item whose text is a non-empty string, the images *)
(* scanned are the data of every image item whose data is non-empty and the *)
(* blob of every resource item of a recognized image type whose blob is     *)
(* non-empty, each in item order; an item whose field is absent or empty,   *)
(* and every other item, contributes nothing.                               *)
C27_OneFragmentPerItemWithContent ==
    \A p \in Slots :
        ExtractedArray(pipe[p]) =>
            /\ ScannedTexts(pipe[p]) = TextsOfItems(ItemsOf(pipe[p]), NonEmpty)
            /\ ScannedImages(pipe[p]) = ImagesOfItems(ItemsOf(pipe[p]), NonEmpty)
            /\ Len(pipe[p].scans) =
                  Len(ScannedTexts(pipe[p])) + Len(ScannedImages(pipe[p]))

\* a text item with an empty text and a resource whose MIME type is written
\* in capitals: one scan call, scanImage with the blob
C27_Witness ==
    \E p \in Slots :
        /\ ExtractedArray(pipe[p])
        /\ ItemsOf(pipe[p]) =
              <<TextItem(Lit("")),
                ResourceItem(Some(Lit("R0lGODlh")), Some(Lit("IMAGE/PNG")))>>
        /\ Len(pipe[p].scans) = 1
        /\ pipe[p].scans[1].kind = "image"
        /\ pipe[p].scans[1].content = Lit("R0lGODlh")

\* the four shapes without a content array
HasStringContent(message) ==
    /\ message.result # None
    /\ message.result[1].content # None
    /\ IsString(message.result[1].content[1])

HasNoContent(message) == message.result # None /\ message.result[1].content = None

HasOnlyParams(message) == message.result = None /\ message.params # None

HasNeither(message) == message.result = None /\ message.params = None

(* C28, as stated: a result whose content is a string is scanned as exactly *)
(* that string; a result with no content as the serialized result; a        *)
(* message with params and no result as the serialized params; a message    *)
(* with neither is not scanned at all.                                      *)
C28_ExtractionByShape ==
    \A p \in Slots :
        pipe[p].extractCalls = 1 =>
            LET message == pipe[p].message[1] IN
            /\ HasStringContent(message) =>
                  /\ ScannedTexts(pipe[p]) = <<message.result[1].content[1].string>>
                  /\ ScannedImages(pipe[p]) = <<>>
            /\ HasNoContent(message) =>
                  /\ ScannedTexts(pipe[p]) = <<JSONstringify(message.result[1])>>
                  /\ ScannedImages(pipe[p]) = <<>>
            /\ HasOnlyParams(message) =>
                  /\ ScannedTexts(pipe[p]) = <<JSONstringify(message.params[1])>>
                  /\ ScannedImages(pipe[p]) = <<>>
            /\ HasNeither(message) => pipe[p].scans = <<>>

(* C28, amended: a result whose content is a non-empty string is scanned as *)
(* exactly that string; a result whose content is absent or the empty       *)
(* string is scanned as one text, the serialized whole result; a message    *)
(* with params and no result is scanned as one text, the serialized params; *)
(* a message with neither is not scanned and is delivered as it is.         *)
C28_ExtractionByShapeNonEmpty ==
    \A p \in Slots :
        pipe[p].extractCalls = 1 =>
            LET message == pipe[p].message[1] IN
            /\ (HasStringContent(message)
                    /\ message.result[1].content[1].string # Lit("")) =>
                  /\ ScannedTexts(pipe[p]) = <<message.result[1].content[1].string>>
                  /\ ScannedImages(pipe[p]) = <<>>
            /\ (\/ HasNoContent(message)
                \/ /\ HasStringContent(message)
                   /\ message.result[1].content[1].string = Lit("")) =>
                  /\ ScannedTexts(pipe[p]) = <<JSONstringify(message.result[1])>>
                  /\ ScannedImages(pipe[p]) = <<>>
            /\ HasOnlyParams(message) =>
                  /\ ScannedTexts(pipe[p]) = <<JSONstringify(message.params[1])>>
                  /\ ScannedImages(pipe[p]) = <<>>
            /\ HasNeither(message) =>
                  /\ pipe[p].scans = <<>>
                  /\ pipe[p].delivered = <<message>>

\* a result whose content is the empty string: one scanText call, with the
\* serialized result
C28_Witness ==
    \E p \in Slots :
        /\ pipe[p].extractCalls = 1
        /\ pipe[p].message = Some(Response(7, Result(Some(StringContent(Lit(""))), "r")))
        /\ Len(pipe[p].scans) = 1
        /\ pipe[p].scans[1].kind = "text"
        /\ pipe[p].scans[1].content =
              JSONstringify(Result(Some(StringContent(Lit(""))), "r"))

\* p comes before q in the sequence
Before(order, p, q) ==
    \E i \in 1..Len(order) : \E j \in 1..Len(order) :
        i < j /\ order[i] = p /\ order[j] = q

(* C25: the handler takes a message at any time, whatever other             *)
(* invocations are in flight; and the application receives the output of a  *)
(* later message before the output of an earlier one only if the later      *)
(* message came in while the earlier invocation had not settled.            *)
C25_PipelinesOverlap ==
    /\ \A p \in Slots :
          (adapter.wired /\ pipe[p].pc = "idle") =>
              \A message \in OverlapMessages : ENABLED Receive(p, message, None)
    /\ \A p \in Slots : \A q \in Slots :
          (Before(wrapped.inbound, p, q) /\ Before(caller.outputs, q, p)) =>
              p \in pipe[q].arrivedDuring

\* the tool call came in first and waited for its scan; the ping came in
\* during that wait and was delivered at once; the tool call was delivered
\* after it
C25_Witness ==
    /\ wrapped.inbound = <<1, 2>>
    /\ caller.outputs = <<2, 1>>
    /\ pipe[1].message = Some(Request(7, "tools/call", SomeParams))
    /\ pipe[1].delivered = <<Request(7, "tools/call", SomeParams)>>
    /\ pipe[2].message = Some(Request(8, "ping", None))
    /\ pipe[2].arrivedDuring = {1}

\* what an invocation was given: its message, and what the hooks and the
\* scan client answered
Inputs(rec) ==
    <<rec.message, rec.shouldScanResult, rec.hookFailure, rec.scans,
      rec.afterScanResult, rec.unsafeResult>>

\* what an invocation did with it
Disposition(rec) ==
    <<rec.pc, rec.combined, rec.delivered, rec.reported, rec.raised>>

(* C29: no step changes the options; and any two invocations that have      *)
(* settled after the same message, the same hook results and the same scan  *)
(* results have done the same: the same message delivered or none, the same *)
(* error reported and raised or none, whatever was processed before them    *)
(* or at the same time.                                                     *)
C29_DispositionIsAFunctionOfInputs ==
    /\ [][options' = options]_vars
    /\ [](\A p \in Slots : \A q \in Slots :
            (/\ Settled(pipe[p])
             /\ Settled(pipe[q])
             /\ Inputs(pipe[p]) = Inputs(pipe[q])) =>
                Disposition(pipe[p]) = Disposition(pipe[q]))

\* two invocations of the same unsafe tool call, the second entered while
\* the first was in flight, both answered with the synthesized error
C29_Witness ==
    /\ Settled(pipe[1])
    /\ Settled(pipe[2])
    /\ pipe[2].arrivedDuring = {1}
    /\ Unsafe(pipe[1])
    /\ Inputs(pipe[1]) = Inputs(pipe[2])
    /\ Len(pipe[1].delivered) = 1
    /\ CarriesReservedCode(pipe[1].delivered[1])
    /\ pipe[1].delivered = pipe[2].delivered

(* C30: if every hook call and every scan call returns or fails in the end, *)
(* every invocation that has been entered settles in the end; and an        *)
(* invocation waiting for its scan calls leaves that wait only when every   *)
(* call has fulfilled or one has failed: there is no timeout.               *)
C30_PipelinesTerminate ==
    /\ \A p \in Slots : (pipe[p].pc # "idle") ~> Settled(pipe[p])
    /\ [][\A p \in Slots :
            (pipe[p].pc = "awaitScans" /\ pipe'[p].pc # "awaitScans") =>
                \/ \A i \in 1..Len(pipe[p].scans) : pipe[p].scans[i].state = "fulfilled"
                \/ pipe[p].rejection # None]_vars

\* an invocation still waiting for its scan call while a message that came
\* in after it has been delivered
C30_Witness ==
    /\ pipe[1].pc = "awaitScans"
    /\ pipe[1].scans[1].state = "pending"
    /\ pipe[2].arrivedDuring = {1}
    /\ pipe[2].pc = "returned"
    /\ pipe[2].delivered = <<pipe[2].message[1]>>
    /\ caller.outputs = <<2>>

\* a hook let the original of this unsafe message through: onAfterScan
\* returned passthrough=true, or onUnsafeMessage returned passthrough=true
\* and no replace, or returned the original as replace
ExplicitlyAllowed(rec) ==
    \/ rec.afterScanResult = Some(Some([passthrough |-> TRUE]))
    \/ /\ UnsafeHookReturned(rec)
       /\ \/ UnsafeHookResult(rec).passthrough /\ UnsafeHookResult(rec).replace = None
          \/ UnsafeHookResult(rec).replace = rec.message

(* C31: whenever the combined verdict of a message is unsafe and the        *)
(* original message is among what the application has received, a hook      *)
(* allowed it: onAfterScan returned passthrough=true, or onUnsafeMessage    *)
(* returned passthrough=true with no replace or returned the original as    *)
(* replace.                                                                 *)
C31_UnsafeOriginalOnlyIfAllowed ==
    \A p \in Slots :
        (/\ Unsafe(pipe[p])
         /\ \E i \in 1..Len(pipe[p].delivered) :
               pipe[p].delivered[i] = pipe[p].message[1]) =>
            ExplicitlyAllowed(pipe[p])

\* an unsafe request with onAfterScan returning passthrough=false and no
\* onUnsafeMessage hook: the application received the synthesized error and
\* not the request
C31_Witness ==
    \E p \in Slots :
        /\ Unsafe(pipe[p])
        /\ ~options.onUnsafeMessage
        /\ pipe[p].afterScanResult = Some(Some([passthrough |-> FALSE]))
        /\ IsRequest(pipe[p].message[1])
        /\ pipe[p].pc = "returned"
        /\ Len(pipe[p].delivered) = 1
        /\ pipe[p].delivered[1] # pipe[p].message[1]
        /\ CarriesReservedCode(pipe[p].delivered[1])

(* C34: an invocation of the handler that has thrown has raised the value   *)
(* that failed and has called onerror exactly once with it if it is an      *)
(* Error instance and not at all if it is not; if the value came from a     *)
(* scan call or a hook, nothing was delivered; if it came from the          *)
(* application's own onmessage callback, the message had been handed to     *)
(* that callback.  An invocation that has not thrown has not called         *)
(* onerror.                                                                 *)
C34_ReportingDependsOnFailureValue ==
    \A p \in Slots :
        /\ pipe[p].pc = "threw" =>
              /\ pipe[p].raised # None
              /\ pipe[p].reported =
                    IF pipe[p].raised[1].instanceofError
                    THEN <<pipe[p].raised[1]>> ELSE <<>>
              /\ (pipe[p].hookFailure # None \/ pipe[p].rejection # None) =>
                    pipe[p].delivered = <<>>
              /\ AppThrew(pipe[p]) => Len(pipe[p].delivered) = 1
        /\ pipe[p].pc # "threw" =>
              pipe[p].reported = <<>> /\ pipe[p].raised = None

\* a scan call rejected with a value that is not an Error: raised, not
\* reported, nothing delivered
C34_Witness ==
    \E p \in Slots :
        /\ pipe[p].pc = "threw"
        /\ pipe[p].rejection = Some(ErrorValue(FALSE, "scan aborted"))
        /\ pipe[p].raised = pipe[p].rejection
        /\ pipe[p].reported = <<>>
        /\ pipe[p].delivered = <<>>

\* an item the loop over a content array takes a fragment from
Scannable(item) ==
    \/ item.type = "text" /\ NonEmpty(item.text)
    \/ item.type = "image" /\ NonEmpty(item.data)
    \/ /\ item.type = "resource"
       /\ item.resource # None
       /\ NonEmpty(item.resource[1].blob)
       /\ isImageMimeType(item.resource[1].mimeType)

NothingScannable(rec) ==
    /\ ExtractedArray(rec)
    /\ \A i \in 1..Len(ItemsOf(rec)) : ~Scannable(ItemsOf(rec)[i])

(* C32: a message whose result holds a content array with no scannable     *)
(* item (empty, or only items of unknown type, text items with an empty     *)
(* text, resource items of a non-image MIME type and the like) has, once    *)
(* extracted, been handed to the application unchanged and the invocation   *)
(* is over: no scan call was made and neither onAfterScan nor               *)
(* onUnsafeMessage was called.                                              *)
C32_NothingScannableIsForwardedUnscanned ==
    \A p \in Slots :
        NothingScannable(pipe[p]) =>
            /\ pipe[p].scans = <<>>
            /\ pipe[p].delivered = <<pipe[p].message[1]>>
            /\ pipe[p].afterScanCalls = 0
            /\ pipe[p].unsafeCalls = 0
            /\ pipe[p].combined = None
            /\ \/ pipe[p].pc = "returned"
               \/ pipe[p].pc = "threw" /\ AppThrew(pipe[p])

\* a text item with an empty text and a PDF resource, with every hook
\* configured and shouldScanMessage returning true: forwarded as it came
C32_Witness ==
    \E p \in Slots :
        /\ options.shouldScanMessage /\ options.onAfterScan /\ options.onUnsafeMessage
        /\ pipe[p].shouldScanResult = Some(Bool(TRUE))
        /\ NothingScannable(pipe[p])
        /\ ItemsOf(pipe[p]) =
              <<TextItem(Lit("")),
                ResourceItem(Some(Lit("JVBERi0=")), Some(Lit("application/pdf")))>>
        /\ pipe[p].pc = "returned"
        /\ pipe[p].delivered = <<pipe[p].message[1]>>

\* the handler's next step for an invocation that is waiting
CanGoOn(p) ==
    /\ pipe[p].pc = "awaitShouldScan" => ENABLED ShouldScanReturn(p, Bool(TRUE), None)
    /\ pipe[p].pc = "awaitScans" =>
          \/ ENABLED PromiseAllFulfils(p, None)
          \/ ENABLED PromiseAllRejects(p)
          \/ \E i \in 1..(MaxContent + 1) : ENABLED ScanFulfils(p, i, SafeVerdict)
    /\ pipe[p].pc = "awaitAfterScan" =>
          ENABLED AfterScanReturn(p, Some([passthrough |-> TRUE]), None)
    /\ pipe[p].pc = "awaitUnsafeMessage" =>
          ENABLED UnsafeMessageReturn(p, Some([passthrough |-> TRUE, replace |-> None]), None)

(* C33: a call of close makes one call, the wrapped transport's close, and  *)
(* is pending, fulfilled or rejected as that call is; and an                *)
(* invocation of the handler that was waiting for a hook or a scan when     *)
(* close was called goes on as any other: while it waits its next step can  *)
(* be taken; once it has returned it has handed one message to the          *)
(* application (the original when nothing was found unsafe), unless it is   *)
(* an unsafe message without an id, which is dropped; once it has thrown,   *)
(* it has reported the failure through onerror if it is an Error.           *)
C33_CloseDoesNotFenceInFlight ==
    /\ LastCallIs("close") =>
          LastCall.calls =
              <<Call("wrappedTransport.close", <<>>, LastCall.settled, LastCall.error)>>
    /\ \A p \in Slots :
          pipe[p].closedDuring =>
              /\ caller.closed
              /\ CanGoOn(p)
              /\ pipe[p].pc = "returned" =>
                    /\ \/ Len(pipe[p].delivered) = 1
                       \/ /\ pipe[p].delivered = <<>>
                          /\ Unsafe(pipe[p])
                          /\ pipe[p].message[1].id = None
                    /\ ~Unsafe(pipe[p]) => pipe[p].delivered = <<pipe[p].message[1]>>
              /\ pipe[p].pc = "threw" =>
                    pipe[p].reported =
                       IF pipe[p].raised[1].instanceofError
                       THEN <<pipe[p].raised[1]>> ELSE <<>>

\* close was called and returned while the scan of a tool call was awaited;
\* the scan then found it safe, onAfterScan was asked, and the application
\* received the request
C33_Witness ==
    /\ LastCallIs("close")
    /\ LastCall.settled
    /\ pipe[1].closedDuring
    /\ pipe[1].message = Some(Request(7, "tools/call", SomeParams))
    /\ pipe[1].scans # <<>>
    /\ pipe[1].afterScanCalls = 1
    /\ pipe[1].pc = "returned"
    /\ pipe[1].delivered = <<Request(7, "tools/call", SomeParams)>>

====
